---- MODULE Spec2Model ----
(***************************************************************************)
(* Model of mockfactory/catalog.py: the partitioned file (BaseFile) and    *)
(* the distributed column store (BaseCatalog).                             *)
(*                                                                         *)
(* Ranks are 0 .. mpisize-1 as in the source.  A Python list is a TLA+     *)
(* sequence, so the element the source calls a[i] is a[i+1] here.  A       *)
(* column is a sequence of integers; a dict of columns is a function from  *)
(* column names to sequences; a structured array is a sequence of rows,    *)
(* each row a function from column names to integers.                      *)
(***************************************************************************)
EXTENDS Integers, Sequences, FiniteSets, TLC

\* ------------------------------------------------------------------ bounds
MaxProcs == 3
MaxFiles == 2
MaxFileSize == 3
\* the write specification: ranks, and rows of the table written
MaxWriteProcs == 2
MaxRows == 2
\* the store specifications: ranks, and global rows of a store
MaxCatProcs == 2
MaxCatRows == 2

VARIABLES
    mpisize,      \* mpicomm.size
    want_array,   \* BaseFile._want_array of the file handler class
    mpio,         \* whether h5py opens a file with driver='mpio' (HDF5File only)
    saving,       \* what the root has gathered for the last file and not saved yet
    disk,         \* the physical files, in the order of self.filenames
    file,         \* per rank: the BaseFile object's attributes
    fcall,        \* the last BaseFile call and its arguments
    fret,         \* per rank: outcome and return value of the last call
    hdrs,         \* per file: what the codec's _read_file_header reports besides the size
    cats,         \* the stores handed to the BaseCatalog operations
    ccall,        \* the last BaseCatalog call and its arguments
    cret,         \* its outcome: the exception raised, or the store returned
    eq,           \* per rank: where the rank is in __eq__, and what it holds
    eqcols,       \* self.columns() as __eq__ got it, in list order
    ckpt,         \* the checkpoint file that save() writes and load() reads
    store,        \* the BaseCatalog object the program holds, rank by rank
    scall,        \* the last call on store and its arguments
    sret,         \* per rank: its outcome and return value
    nread         \* per column: the _source.read calls since the last delete

vars == <<mpisize, want_array, mpio, saving, disk, hdrs, file, fcall, fret, cats, ccall, cret,
          eq, eqcols, ckpt, store, scall, sret, nread>>
filevars == <<want_array, mpio, saving, disk, hdrs, file, fcall, fret>>
catvars == <<cats, ccall, cret, eq, eqcols, ckpt>>
storevars == <<store, scall, sret, nread>>

\* ------------------------------------------------------------ numpy, Python
ColumnNames == {"x", "y"}
\* the order in which a dict built as {'x': ..., 'y': ...} lists its keys, and
\* h5py the datasets of a group (by name)
DictOrder == <<"x", "y">>
\* list(d.keys()) of such a dict whose keys are the set names
DictKeys(names) == SelectSeq(DictOrder, LAMBDA c : c \in names)
\* the value None of an optional rank argument (mpiroot=None)
None == -1
Min(a, b) == IF a < b THEN a ELSE b
Max(a, b) == IF a > b THEN a ELSE b

RECURSIVE SumSeq(_)
SumSeq(s) == IF s = <<>> THEN 0 ELSE Head(s) + SumSeq(Tail(s))

Cumsum(s) == [i \in 1..Len(s) |-> SumSeq(SubSeq(s, 1, i))]

\* np.searchsorted(a, v, side='left') on a sorted a: the (0-based) index i with
\* a[i-1] < v <= a[i]
Searchsorted(a, v) == Cardinality({i \in 1..Len(a) : a[i] < v})

\* Python's s[a:b]: a negative bound counts from the end, both are clipped
SliceIndex(i, n) == IF i < 0 THEN Max(i + n, 0) ELSE Min(i, n)
PySlice(s, a, b) == SubSeq(s, SliceIndex(a, Len(s)) + 1, SliceIndex(b, Len(s)))

\* np.concatenate(parts, axis=0) of parts[lo], ..., parts[hi]
RECURSIVE NpConcatenate(_, _, _)
NpConcatenate(parts, lo, hi) ==
    IF lo > hi THEN <<>> ELSE parts[lo] \o NpConcatenate(parts, lo + 1, hi)

\* a dict of attributes maps each key to its value, or to "absent"
AttrKeys == {"k"}
NoAttrs == [k \in AttrKeys |-> "absent"]

\* dict.update(other), and {**a, **b}: the values of b win
DictUpdate(a, b) == [k \in DOMAIN a |-> IF b[k] # "absent" THEN b[k] ELSE a[k]]

\* ---------------------------------------------------------------- mpi module
Ranks == 0..(mpisize - 1)
\* self.mpiroot
MpiRoot == 0

\* mpi.gather_array: the local arrays of all ranks, lower rank first
GatherArray(parts, nprocs) == NpConcatenate(parts, 0, nprocs - 1)

\* mpi.scatter_array: even partition of the root's array over the ranks
ScatterArray(array, nprocs) ==
    [r \in 0..(nprocs - 1) |->
        SubSeq(array, (r * Len(array)) \div nprocs + 1, ((r + 1) * Len(array)) \div nprocs)]

\* ------------------------------------------------------------------ BaseFile
NoHeader == [has_csizes |-> FALSE, csizes |-> <<>>, csize |-> 0,
             start |-> 0, stop |-> 0, size |-> 0, columns |-> {}, attrs |-> NoAttrs]

\* _read_file_header(filename)['size']: the rows of the array, or of the
\* first dataset
ReadFileHeaderSize(f) == Len(f[DictKeys(DOMAIN f)[1]])

\* _read_file_header(filename) of a file that the codec can read, whose columns are
\* all the columns and that carries no attributes
GoodHeader == [columns |-> ColumnNames, attrs |-> NoAttrs, readable |-> TRUE]
GoodHeaders(n) == [i \in 1..n |-> GoodHeader]

\* the first file (from 1) at which the root's loop over the files raises, 0 if
\* none: the codec fails on its header, or its columns are no subset of the
\* first file's
FirstHeaderError(hd) ==
    LET bad == {i \in 1..Len(hd) : ~hd[i].readable \/ ~(hd[i].columns \subseteq hd[1].columns)}
    IN IF bad = {} THEN 0 ELSE CHOOSE i \in bad : \A j \in bad : i <= j

\* self.attrs once the loop has merged the files 1..n:
\* self.attrs = {**di.get('attrs', {}), **self.attrs}
RECURSIVE HeaderAttrsLastWins(_, _, _)
HeaderAttrsLastWins(hd, attrs, n) ==
    IF n = 0 THEN attrs ELSE DictUpdate(HeaderAttrsLastWins(hd, attrs, n - 1), hd[n].attrs)
RECURSIVE HeaderAttrs(_, _, _)
HeaderAttrs(hd, attrs, n) ==
    IF n = 0 THEN attrs ELSE DictUpdate(hd[n].attrs, HeaderAttrs(hd, attrs, n - 1))

\* the process's block of the global rows
BlockBoundsShort(rank, csize, nprocs) ==
    <<(rank * csize) \div nprocs, (rank * csize) \div nprocs + csize \div nprocs>>
BlockBounds(rank, csize, nprocs) ==
    <<(rank * csize) \div nprocs, ((rank + 1) * csize) \div nprocs>>

\* _read_header on one rank, once the root's state is broadcast
ReadHeaderRank(rank, dsk, hd, attrs, nprocs) ==
    LET csizes == [i \in 1..Len(dsk) |-> ReadFileHeaderSize(dsk[i])]
        csize == SumSeq(csizes)
        b == BlockBounds(rank, csize, nprocs)
    IN [has_csizes |-> TRUE, csizes |-> csizes, csize |-> csize,
        start |-> b[1], stop |-> b[2], size |-> b[2] - b[1],
        columns |-> hd[1].columns, attrs |-> HeaderAttrs(hd, attrs, Len(hd))]

\* the root's object when its loop raises at file k: what it has assigned so far
ReadHeaderRaised(self, dsk, hd, k) ==
    LET n == IF hd[k].readable THEN k ELSE k - 1
    IN [self EXCEPT !.has_csizes = TRUE,
                    !.csizes = [i \in 1..n |-> ReadFileHeaderSize(dsk[i])],
                    !.columns = IF n >= 1 THEN hd[1].columns ELSE {},
                    !.attrs = HeaderAttrs(hd, self.attrs, k - 1)]

\* _read_header() called by every rank: the objects afterwards, and how the
\* call ends on each rank.  When the root raises, it never reaches the bcast of
\* line 131, in which every other rank waits.
ReadHeaderAll(fileobj, dsk, hd, nprocs) ==
    LET k == FirstHeaderError(hd)
        rs == 0..(nprocs - 1)
    IN IF k = 0
       THEN [file |-> [r \in rs |-> ReadHeaderRank(r, dsk, hd, fileobj[MpiRoot].attrs, nprocs)],
             status |-> [r \in rs |-> "ok"]]
       ELSE [file |-> [r \in rs |-> IF r = MpiRoot
                                    THEN ReadHeaderRaised(fileobj[r], dsk, hd, k)
                                    ELSE fileobj[r]],
             status |-> [r \in rs |-> IF r # MpiRoot THEN "blocked"
                                      ELSE IF hd[k].readable THEN "ValueError"
                                      ELSE "IOError"]]

\* _read_file_slice(filename, column, rows=slice(a, b))
ReadFileSlice(f, column, a, b) == PySlice(f[column], a, b)

\* the file-local rows of file ifile that read() asks for
ReadRowsNoClip(self, ifile) ==
    LET cumsizes == Cumsum(self.csizes)
        cumstart == IF ifile = 0 THEN 0 ELSE cumsizes[ifile]
    IN <<self.start - cumstart, Min(self.stop - cumstart, self.csizes[ifile + 1])>>
ReadRows(self, ifile) ==
    LET cumsizes == Cumsum(self.csizes)
        cumstart == IF ifile = 0 THEN 0 ELSE cumsizes[ifile]
    IN <<Max(self.start - cumstart, 0), Min(self.stop - cumstart, self.csizes[ifile + 1])>>

\* the files visited if a boundary equal to start resolved to the file that
\* starts there (side='right' for start)
ReadFilesRight(self) ==
    LET cumsizes == Cumsum(self.csizes)
    IN Cardinality({i \in 1..Len(cumsizes) : cumsizes[i] <= self.start})
           ..Searchsorted(cumsizes, self.stop)

\* the files read() visits: range(ifile_start, ifile_stop+1)
ReadFiles(self) ==
    LET cumsizes == Cumsum(self.csizes)
    IN Searchsorted(cumsizes, self.start)..Searchsorted(cumsizes, self.stop)

\* how read(column) ends on a rank whose header is read.  The files of the range
\* are read in order and the first one that fails ends the call: a file is
\* opened first (h5py.File(filename, 'r'), line 355; np.load, line 409), which
\* fails on the last file while the root is writing it (torn), and then the
\* column is looked up (grp[column], line 357), which raises KeyError in a file
\* that has no dataset of that name
FileReadStatus(self, dsk, column, torn) ==
    LET unreadable(ifile) == torn /\ ifile = Len(dsk) - 1
        fails == {ifile \in ReadFiles(self) :
                    unreadable(ifile) \/ column \notin DOMAIN dsk[ifile + 1]}
        first == CHOOSE ifile \in fails : \A j \in fails : ifile <= j
    IN IF fails = {} THEN "ok"
       ELSE IF unreadable(first) THEN "ReadError"
       ELSE "KeyError"

\* read(column) on a rank whose header is read
FileRead(self, dsk, column) ==
    LET fs == ReadFiles(self)
        toret == [ifile \in fs |->
                    ReadFileSlice(dsk[ifile + 1], column,
                                  ReadRows(self, ifile)[1], ReadRows(self, ifile)[2])]
    IN IF fs = {} THEN <<>>
       ELSE NpConcatenate(toret, CHOOSE i \in fs : \A j \in fs : i <= j,
                               CHOOSE i \in fs : \A j \in fs : i >= j)

\* the rows of its local data that a rank hands to target file ifile
WriteRows(ifile, rank, sizes, nfiles) ==
    LET cumsizes == Cumsum(sizes)
        csize == cumsizes[Len(cumsizes)]
        start == (ifile * csize) \div nfiles
        stop == ((ifile + 1) * csize) \div nfiles
        irank_start == Searchsorted(cumsizes, start)
        irank_stop == Searchsorted(cumsizes, stop)
        cumstart == IF rank = 0 THEN 0 ELSE cumsizes[rank]
    IN IF irank_start <= rank /\ rank <= irank_stop
       THEN <<Max(start - cumstart, 0), Min(stop - cumstart, sizes[rank + 1])>>
       ELSE <<0, 0>>

\* {name: data[name][rows] for name in data}
DictSlice(data, rows) == [c \in DOMAIN data |-> PySlice(data[c], rows[1], rows[2])]

\* _dict_to_array(data) with struct=True: one row per element of the first column
DictToArray(data) ==
    LET first == DictKeys(DOMAIN data)[1]
    IN [k \in 1..Len(data[first]) |-> [c \in DOMAIN data |-> data[c][k]]]

\* array[name] of a structured array
ArrayColumn(array, name) == [k \in 1..Len(array) |-> array[k][name]]

\* BinaryFile._write_file_slice: the ranks' arrays gathered on the root and saved
WriteFileSliceArray(tmp, nprocs) ==
    LET data == GatherArray(tmp, nprocs)
    IN [c \in ColumnNames |-> ArrayColumn(data, c)]

\* HDF5File._write_file_slice, the file once the root has written the first k
\* names of data (old: what the file held before).  With the mpio driver every
\* rank writes its rows of every dataset into one file.  Without it the root
\* gathers one column after the other and opens the file with mode 'w' for
\* each: the file is truncated every time and holds the last column written.
WriteFileSliceDictStep(tmp, nprocs, withmpio, old, k) ==
    LET names == DictKeys(DOMAIN tmp[0])
        kept == IF withmpio THEN DOMAIN tmp[0] ELSE {names[k]}
    IN IF k = 0 THEN old
       ELSE [c \in kept |-> GatherArray([r \in 0..(nprocs - 1) |-> tmp[r][c]], nprocs)]
WriteFileSliceDict(tmp, nprocs, withmpio, old) ==
    WriteFileSliceDictStep(tmp, nprocs, withmpio, old, Len(DictKeys(DOMAIN tmp[0])))

\* the slices of the ranks' data that write() hands to _write_file_slice for
\* file ifile
WriteSlices(ifile, data, sizes, nfiles) ==
    [r \in 0..(Len(sizes) - 1) |-> DictSlice(data[r], WriteRows(ifile, r, sizes, nfiles))]

\* what one pass of write()'s loop over the target files stores in file ifile
WriteFile(ifile, data, sizes, nfiles, wantarray, withmpio, old) ==
    LET nprocs == Len(sizes)
        tmp == WriteSlices(ifile, data, sizes, nfiles)
    IN IF wantarray
       THEN WriteFileSliceArray([r \in 0..(nprocs - 1) |-> DictToArray(tmp[r])], nprocs)
       ELSE WriteFileSliceDict(tmp, nprocs, withmpio, old)

\* whether the ranks other than the root leave _write_file_slice before the
\* root has saved what it gathered: nothing follows the gather on them (lines
\* 390, 412), and no barrier; with the mpio driver the file is closed by all
\* ranks together
SavedLater(wantarray, withmpio, nprocs) == nprocs > 1 /\ (wantarray \/ ~withmpio)

\* file ifile when the other ranks leave its _write_file_slice: the root has
\* gathered the array, or the last column, and has not saved it
WriteFileUnsaved(ifile, data, sizes, nfiles, wantarray, old) ==
    LET tmp == WriteSlices(ifile, data, sizes, nfiles)
    IN IF wantarray THEN old
       ELSE WriteFileSliceDictStep(tmp, Len(sizes), FALSE, old,
                                   Len(DictKeys(DOMAIN tmp[0])) - 1)

\* what _read_file_header reports of a file that was written with attributes
\* attrs: BinaryFile keeps none; HDF5File writes self.attrs with the first
\* column, so without the mpio driver they are lost with it when a second
\* column is written
WrittenHeader(content, attrs, wantarray, withmpio) ==
    [columns |-> DOMAIN content, readable |-> TRUE,
     attrs |-> IF ~wantarray /\ (withmpio \/ DOMAIN content = {DictOrder[1]})
               THEN attrs ELSE NoAttrs]

\* ------------------------------------------------------------ inputs
ColBase(c) == IF c = "x" THEN 0 ELSE 1000

\* the global rows [lo, hi) that rank r holds when the local sizes are sizes
RankLo(sizes, r) == IF r = 0 THEN 0 ELSE SumSeq(SubSeq(sizes, 1, r))
RankHi(sizes, r) == SumSeq(SubSeq(sizes, 1, r + 1))

\* column c of a table of n rows handed to write(): row g holds ColBase(c) + g
DataColumn(c, n) == [g \in 1..n |-> ColBase(c) + g]

\* the local dict of rank r when the table is partitioned with local sizes `sizes`
LocalDict(sizes, r) ==
    LET cum == Cumsum(sizes)
        lo == IF r = 0 THEN 0 ELSE cum[r]
    IN [c \in ColumnNames |-> SubSeq(DataColumn(c, SumSeq(sizes)), lo + 1, cum[r + 1])]

\* file number i (1-based) with n rows: row j of column c holds ColBase(c) + 100*i + j
FileContent(i, n) == [c \in ColumnNames |-> [j \in 1..n |-> ColBase(c) + 100 * i + j]]
DiskOf(sizes) == [i \in 1..Len(sizes) |-> FileContent(i, sizes[i])]
SizeLists == UNION {[1..m -> 0..MaxFileSize] : m \in 1..MaxFiles}
ScenarioSizes == <<10, 7, 5>>

\* local sizes of a table of at most MaxRows rows over nprocs ranks
AllSizeVectors ==
    [nprocs \in 1..MaxWriteProcs |-> {s \in [1..nprocs -> 0..MaxRows] : SumSeq(s) <= MaxRows}]
SizeVectors(nprocs) == AllSizeVectors[nprocs]
\* ... when the whole table sits on rank root
RootVectors(nprocs, root) ==
    {[r \in 1..nprocs |-> IF r = root + 1 THEN n ELSE 0] : n \in 0..MaxRows}

NoCall == [op |-> "init", column |-> "", isdict |-> FALSE, mpiroot |-> None, sizes |-> <<>>]
NoRet == [r \in Ranks |-> [status |-> "none", value |-> <<>>, sent |-> <<>>]]
OkRet(r) == [status |-> "ok", value |-> <<>>, sent |-> <<>>]
Raised(e) == [status |-> e, value |-> <<>>, sent |-> <<>>]
\* no rank has raised alone or waits in a collective call that cannot complete
Alive ==
    \A r \in Ranks :
        fret[r].status \notin {"blocked", "ScatterError", "ValueError", "IOError", "ReadError"}

\* --------------------------------------------------------------- BaseCatalog
\* A store is [data, attrs]: data[r] is the dict self.data of rank r, held as
\* its key set and the array of each key; attrs maps each key to its value, or
\* to "absent".
\* the value None stored where an array is expected
NoneColumn == <<None>>
EmptyData == [keys |-> {}, val |-> [c \in ColumnNames |-> <<>>]]
EmptyCatalog(nprocs) == [data |-> [r \in 0..(nprocs - 1) |-> EmptyData], attrs |-> NoAttrs]

\* set(column, item): self.data[column] = item
SetColumn(d, column, item) ==
    [keys |-> d.keys \cup {column}, val |-> [d.val EXCEPT ![column] = item]]

\* columns() without include or exclude: the root's names, broadcast
CatColumns(cat) == cat.data[MpiRoot].keys

\* cget(column, mpiroot=self.mpiroot): the column gathered on the root
Cget(cat, column, nprocs) ==
    GatherArray([r \in 0..(nprocs - 1) |-> cat.data[r].val[column]], nprocs)

\* copy(): every rank keeps the columns of columns(), None for one it does not hold
CatCopy(cat, nprocs) ==
    [data |-> [r \in 0..(nprocs - 1) |->
                 [keys |-> CatColumns(cat),
                  val |-> [c \in ColumnNames |->
                             IF c \in cat.data[r].keys THEN cat.data[r].val[c]
                             ELSE IF c \in CatColumns(cat) THEN NoneColumn ELSE <<>>]]],
     attrs |-> cat.attrs]

\* cslice(start, stop): sl = slice(start, stop) is built, then every column is
\* gathered on the root and scattered again
Cslice(cat, start, stop, nprocs) ==
    LET new == CatCopy(cat, nprocs)
        cols == CatColumns(cat)
        value == [c \in cols |-> ScatterArray(Cget(cat, c, nprocs), nprocs)]
    IN [new EXCEPT !.data =
          [r \in 0..(nprocs - 1) |->
             [keys |-> new.data[r].keys \cup cols,
              val |-> [c \in ColumnNames |->
                         IF c \in cols THEN value[c][r] ELSE new.data[r].val[c]]]]]

\* concatenate: attrs = {}; for other in others: attrs.update(other.attrs)
RECURSIVE ConcatAttrs(_)
ConcatAttrs(others) ==
    IF others = <<>> THEN NoAttrs
    ELSE DictUpdate(ConcatAttrs(SubSeq(others, 1, Len(others) - 1)), others[Len(others)].attrs)

\* concatenate: others = [other for other in others if other.columns()]
HasColumns(other) == CatColumns(other) # {}
ConcatOthers(others) == SelectSeq(others, HasColumns)

\* concatenate: the test that raises ValueError
ColumnsMismatchSubset(new_columns, other_columns) ==
    new_columns # {} /\ other_columns # {} /\ ~(other_columns \subseteq new_columns)
ColumnsMismatch(new_columns, other_columns) ==
    new_columns # {} /\ other_columns # {} /\ other_columns # new_columns

\* concatenate: the new local array of one column on every rank
ConcatColumnReversed(others, column, keep_order, nprocs) ==
    LET n == Len(others)
    IN IF keep_order
       THEN ScatterArray(NpConcatenate([i \in 1..n |-> Cget(others[n + 1 - i], column, nprocs)], 1, n),
                         nprocs)
       ELSE [r \in 0..(nprocs - 1) |->
               NpConcatenate([i \in 1..n |-> others[i].data[r].val[column]], 1, n)]
ConcatColumnAlwaysOrdered(others, column, keep_order, nprocs) ==
    LET n == Len(others)
    IN ScatterArray(NpConcatenate([i \in 1..n |-> Cget(others[i], column, nprocs)], 1, n), nprocs)
ConcatColumn(others, column, keep_order, nprocs) ==
    LET n == Len(others)
    IN IF keep_order
       THEN ScatterArray(NpConcatenate([i \in 1..n |-> Cget(others[i], column, nprocs)], 1, n),
                         nprocs)
       ELSE [r \in 0..(nprocs - 1) |->
               NpConcatenate([i \in 1..n |-> others[i].data[r].val[column]], 1, n)]

\* concatenate(*allothers, keep_order)
CatConcatenate(allothers, keep_order, nprocs) ==
    LET attrs == ConcatAttrs(allothers)
        others == ConcatOthers(allothers)
        new == CatCopy(others[1], nprocs)
        new_columns == CatColumns(new)
        value == [c \in new_columns |-> ConcatColumn(others, c, keep_order, nprocs)]
    IN IF allothers = <<>>
       THEN [status |-> "ValueError", cat |-> EmptyCatalog(nprocs)]
       ELSE IF others = <<>>
       THEN \* line 848: others[0] of an empty list
            [status |-> "IndexError", cat |-> EmptyCatalog(nprocs)]
       ELSE IF \E i \in 1..Len(others) : ColumnsMismatch(new_columns, CatColumns(others[i]))
       THEN [status |-> "ValueError", cat |-> EmptyCatalog(nprocs)]
       ELSE [status |-> "ok",
             cat |-> [data |-> [r \in 0..(nprocs - 1) |->
                                  [keys |-> new.data[r].keys \cup new_columns,
                                   val |-> [c \in ColumnNames |->
                                              IF c \in new_columns THEN value[c][r]
                                              ELSE new.data[r].val[c]]]],
                      attrs |-> attrs]]

\* np.all(a == b): arrays of one shape are compared element by element and an
\* array of one element is broadcast.  Shapes that do not broadcast depend on
\* the numpy of the build: a == b raises ValueError (strict, numpy from 1.25
\* on) or is False
NpAllEqual(a, b, strict) ==
    IF Len(a) = Len(b) THEN [status |-> "ok", value |-> \A i \in 1..Len(a) : a[i] = b[i]]
    ELSE IF Len(a) = 1 THEN [status |-> "ok", value |-> \A i \in 1..Len(b) : b[i] = a[1]]
    ELSE IF Len(b) = 1 THEN [status |-> "ok", value |-> \A i \in 1..Len(a) : a[i] = b[1]]
    ELSE IF strict THEN [status |-> "ValueError", value |-> FALSE]
    ELSE [status |-> "ok", value |-> FALSE]

\* no checkpoint is written yet
NoCheckpoint == [saved |-> FALSE, columns |-> {}, attrs |-> NoAttrs,
                 data |-> [c \in ColumnNames |-> <<>>]]
\* no store object is in play
\* the argument include=None or exclude=None of columns()
NoPatterns == [given |-> FALSE, patterns |-> <<>>]
NoSCall == [op |-> "init", column |-> "", has_default |-> FALSE, long |-> FALSE,
            start |-> 0, stop |-> 0, include |-> NoPatterns, exclude |-> NoPatterns]
NoSRet == [r \in Ranks |-> [status |-> "none", value |-> <<>>, names |-> <<>>]]
NoStore ==
    /\ store = [data |-> [r \in Ranks |-> EmptyData], order |-> [r \in Ranks |-> <<>>],
                attrs |-> NoAttrs, has_source |-> FALSE]
    /\ scall = NoSCall
    /\ sret = NoSRet
    /\ nread = [c \in ColumnNames |-> 0]
\* no store is handed to a BaseCatalog operation
NoCCall == [op |-> "init", start |-> 0, stop |-> 0, keep_order |-> FALSE, nprocs |-> 0]
NoEq == [r \in Ranks |-> [pc |-> "idle", k |-> 0, toret |-> TRUE, ret |-> FALSE]]
NoCatalog ==
    /\ cats = <<>>
    /\ ccall = NoCCall
    /\ cret = [status |-> "none", cat |-> EmptyCatalog(mpisize)]
    /\ eq = NoEq
    /\ eqcols = <<>>
    /\ ckpt = NoCheckpoint
\* no file is in play
NoFile ==
    /\ want_array = FALSE
    /\ mpio = FALSE
    /\ saving = <<>>
    /\ disk = <<>>
    /\ hdrs = <<>>
    /\ file = [r \in Ranks |-> NoHeader]
    /\ fcall = NoCall
    /\ fret = NoRet

\* ------------------------------------------------------------ BaseFile actions
\* __init__(filename, mode=''): no header is read yet
FileInit ==
    /\ mpisize \in 1..MaxProcs
    /\ want_array \in BOOLEAN
    /\ mpio = FALSE
    /\ saving = <<>>
    /\ disk \in {DiskOf(s) : s \in SizeLists \cup {ScenarioSizes}}
    /\ hdrs = GoodHeaders(Len(disk))
    /\ file = [r \in Ranks |-> NoHeader]
    /\ fcall = NoCall
    /\ fret = NoRet
    /\ NoCatalog
    /\ NoStore

\* _read_header(), called by every rank: by __init__ with mode 'r' or 'rw',
\* or by the first read() of an object that has no csizes yet
ReadHeader ==
    LET out == ReadHeaderAll(file, disk, hdrs, mpisize)
    IN /\ Alive
       /\ saving = <<>>
       /\ \A r \in Ranks : ~file[r].has_csizes
       /\ file' = out.file
       /\ fcall' = [NoCall EXCEPT !.op = "read_header"]
          /\ fret' = [r \in Ranks |-> Raised(out.status[r])]
       /\ UNCHANGED <<mpisize, want_array, mpio, saving, disk, hdrs, catvars, storevars>>

\* read(column) on one rank of objects fileobj: how it ends, the array returned
ReadRet(fileobj, dsk, column, r, torn) ==
    LET status == FileReadStatus(fileobj[r], dsk, column, torn)
    IN IF status = "ok" THEN [OkRet(r) EXCEPT !.value = FileRead(fileobj[r], dsk, column)]
       ELSE Raised(status)

\* read(column), called by every rank, the root having left write()
Read(column) ==
    LET out == IF \A r \in Ranks : file[r].has_csizes
               THEN [file |-> file, status |-> [r \in Ranks |-> "ok"]]
               ELSE ReadHeaderAll(file, disk, hdrs, mpisize)
    IN /\ Alive
       /\ saving = <<>>
       /\ file' = out.file
       /\ fcall' = [NoCall EXCEPT !.op = "read", !.column = column]
       /\ fret' = [r \in Ranks |->
                    IF out.status[r] = "ok" THEN ReadRet(out.file, disk, column, r, FALSE)
                    ELSE Raised(out.status[r])]
       /\ UNCHANGED <<mpisize, want_array, mpio, saving, disk, hdrs, catvars, storevars>>

\* read(column) called by the ranks rs, which have left write(), while the root
\* still holds what it gathered for the last file (torn: and is writing it).
\* A rank whose object has csizes reads without any message from the root.
ReadAhead(column, rs, torn) ==
    /\ Alive
    /\ saving # <<>>
    /\ \A r \in Ranks : file[r].has_csizes
    /\ fcall' = [NoCall EXCEPT !.op = "read", !.column = column]
    /\ fret' = [r \in Ranks |->
                 IF r \in rs THEN ReadRet(file, disk, column, r, torn) ELSE fret[r]]
    /\ UNCHANGED <<mpisize, want_array, mpio, saving, disk, hdrs, file, catvars, storevars>>

\* the root saves what it gathered for the last file (np.save, line 414; the
\* last h5py.File(filename, 'w'), line 386) and leaves write()
RootSave ==
    LET n == Len(disk)
    IN /\ saving # <<>>
       /\ disk' = [disk EXCEPT ![n] = saving[1]]
       /\ hdrs' = [hdrs EXCEPT ![n] = WrittenHeader(saving[1], file[MpiRoot].attrs,
                                                    want_array, mpio)]
       /\ saving' = <<>>
       /\ fret' = [fret EXCEPT ![MpiRoot].status = "ok"]
       /\ UNCHANGED <<mpisize, want_array, mpio, file, fcall, catvars, storevars>>

\* write(data, mpiroot), called by every rank; sizes are the ranks' local row
\* counts.  The step ends when the ranks other than the root leave write().
Write(isdict, mpiroot, sizes) ==
    LET nfiles == Len(disk)
        data == [r \in Ranks |-> LocalDict(sizes, r)]
        raise(e) == [r \in Ranks |-> [status |-> e, value |-> <<>>, sent |-> <<>>]]
        later == SavedLater(want_array, mpio, mpisize)
        saved == [i \in 1..nfiles |->
                    WriteFile(i - 1, data, sizes, nfiles, want_array, mpio, disk[i])]
        unsaved == WriteFileUnsaved(nfiles - 1, data, sizes, nfiles, want_array, disk[nfiles])
        now == IF later THEN [saved EXCEPT ![nfiles] = unsaved] ELSE saved
    IN /\ Alive
       /\ saving = <<>>
       /\ fcall' = [op |-> "write", column |-> "", isdict |-> isdict,
                    mpiroot |-> mpiroot, sizes |-> sizes]
       /\ IF mpiroot # None /\ isdict
          THEN \* line 172: the name colums is not defined
               /\ fret' = raise("NameError")
               /\ UNCHANGED <<disk, hdrs, saving>>
          ELSE IF mpiroot # None /\ mpiroot # MpiRoot
          THEN \* line 174: scattered from self.mpiroot, which holds no array
               /\ fret' = [r \in Ranks |->
                            [status |-> IF r = MpiRoot THEN "ScatterError" ELSE "blocked",
                             value |-> <<>>, sent |-> <<>>]]
               /\ UNCHANGED <<disk, hdrs, saving>>
          ELSE IF ~isdict
          THEN \* line 204: the name sl is not defined
               /\ fret' = raise("NameError")
               /\ UNCHANGED <<disk, hdrs, saving>>
          ELSE /\ disk' = now
               /\ hdrs' = [i \in 1..nfiles |->
                            IF now[i] = disk[i] /\ later /\ i = nfiles THEN hdrs[i]
                            ELSE WrittenHeader(now[i], file[MpiRoot].attrs, want_array, mpio)]
               /\ saving' = IF later THEN <<saved[nfiles]>> ELSE <<>>
               /\ fret' = [r \in Ranks |->
                            [status |-> IF later /\ r = MpiRoot THEN "saving" ELSE "ok",
                             value |-> <<>>,
                             sent |-> [i \in 1..nfiles |-> WriteRows(i - 1, r, sizes, nfiles)]]]
       /\ UNCHANGED <<mpisize, want_array, mpio, file, catvars, storevars>>

FileNext ==
    \/ ReadHeader
    \/ \E column \in ColumnNames : Read(column)

\* reading files that exist
SpecFile == FileInit /\ [][FileNext]_vars

\* __init__(filename, mode='w') on target files that hold no rows yet
WriteInit ==
    /\ mpisize \in 1..MaxWriteProcs
    /\ want_array \in BOOLEAN
    /\ mpio \in {b \in BOOLEAN : b => ~want_array}
    /\ saving = <<>>
    /\ disk \in {DiskOf([i \in 1..m |-> 0]) : m \in 1..MaxFiles}
    /\ hdrs = GoodHeaders(Len(disk))
    /\ file = [r \in Ranks |-> NoHeader]
    /\ fcall = NoCall
    /\ fret = NoRet
    /\ NoCatalog
    /\ NoStore

WriteNext ==
    \/ ReadHeader
    \/ \E column \in ColumnNames : Read(column)
    \/ \E column \in ColumnNames, rs \in (SUBSET (Ranks \ {MpiRoot})) \ {{}}, torn \in BOOLEAN :
          ReadAhead(column, rs, torn)
    \/ RootSave
    \/ \E isdict \in BOOLEAN, sizes \in SizeVectors(mpisize) : Write(isdict, None, sizes)
    \/ \E isdict \in BOOLEAN, root \in Ranks :
          \E sizes \in RootVectors(mpisize, root) : Write(isdict, root, sizes)

\* writing, then reading back
SpecWrite == WriteInit /\ [][WriteNext]_vars

\* ------------------------------------------------------------ store inputs
\* column c of a store of n global rows: row g (from 0) holds ColBase(c) + 10*v + g
StoreColumn(c, n, v) == [g \in 1..n |-> ColBase(c) + 10 * v + g - 1]

\* the store with columns cols whose global rows are partitioned by sizes
MakeStore(cols, sizes, variant, attrs) ==
    [data |-> [r \in 0..(Len(sizes) - 1) |->
                 [keys |-> cols,
                  val |-> [c \in ColumnNames |->
                             IF c \in cols
                             THEN SubSeq(StoreColumn(c, SumSeq(sizes), variant[c]),
                                         RankLo(sizes, r) + 1, RankHi(sizes, r))
                             ELSE <<>>]]],
     attrs |-> attrs]

AllCatSizeVectors ==
    [nprocs \in 1..MaxCatProcs |->
        {s \in [1..nprocs -> 0..MaxCatRows] : SumSeq(s) <= MaxCatRows}]
Variant0 == [c \in ColumnNames |-> 0]
Variant1 == [c \in ColumnNames |-> 1]
Stores(nprocs, variants, attrvals) ==
    {MakeStore({}, [r \in 1..nprocs |-> 0], Variant0, a) : a \in attrvals}
    \cup {MakeStore(cols, sizes, v, a) :
            cols \in (SUBSET ColumnNames) \ {{}}, sizes \in AllCatSizeVectors[nprocs],
            v \in variants, a \in attrvals}

\* the stores [0,1,2,3,4] and [10,11,12] on 2 ranks
ScenarioA == MakeStore({"x"}, <<3, 2>>, Variant0, NoAttrs)
ScenarioB == MakeStore({"x"}, <<1, 2>>, Variant1, NoAttrs)

\* ------------------------------------------------------------ BaseCatalog actions
\* two stores built from dictionaries, BaseCatalog(data=..., attrs=...)
CatInit ==
    /\ mpisize \in 1..MaxCatProcs
    /\ cats \in {<<a, b>> : a \in Stores(mpisize, {Variant0}, {NoAttrs, [k \in AttrKeys |-> "a"]}),
                            b \in Stores(mpisize, {Variant1}, {NoAttrs, [k \in AttrKeys |-> "b"]})}
                \cup (IF mpisize = 2 THEN {<<ScenarioA, ScenarioB>>} ELSE {})
    /\ ccall = NoCCall
    /\ cret = [status |-> "none", cat |-> EmptyCatalog(mpisize)]
    /\ eq = NoEq
    /\ eqcols = <<>>
    /\ ckpt = NoCheckpoint
    /\ NoFile
    /\ NoStore

\* len(cat) summed over the ranks, for a store that has column c
GlobalRows(cat, c) == Len(Cget(cat, c, mpisize))

\* cats[1].cslice(start, stop), called by every rank
CsliceCall(start, stop) ==
    /\ ccall' = [NoCCall EXCEPT !.op = "cslice", !.start = start, !.stop = stop]
    /\ cret' = [status |-> "ok", cat |-> Cslice(cats[1], start, stop, mpisize)]
    /\ UNCHANGED <<mpisize, filevars, storevars, ckpt, cats, eq, eqcols>>

\* BaseCatalog.concatenate(*cats, keep_order=keep_order), called by every rank
ConcatenateCall(keep_order) ==
    /\ ccall' = [NoCCall EXCEPT !.op = "concatenate", !.keep_order = keep_order]
    /\ cret' = CatConcatenate(cats, keep_order, mpisize)
    /\ UNCHANGED <<mpisize, filevars, storevars, ckpt, cats, eq, eqcols>>

CatNext ==
    \/ \E stop \in 0..MaxCatRows :
          /\ \A c \in CatColumns(cats[1]) : stop <= GlobalRows(cats[1], c)
          /\ CsliceCall(0, stop)
    \/ \E keep_order \in BOOLEAN : ConcatenateCall(keep_order)

SpecCatalog == CatInit /\ [][CatNext]_vars

\* ------------------------------------------------------------ __eq__
\* The ranks run cats[1] == cats[2] together.  A collective call (cget's gather,
\* the final bcast) completes once every rank is waiting in that same call, and
\* a rank's local statements up to its next collective call run with the
\* completion of the call before them.
EqInit ==
    /\ mpisize \in 1..MaxCatProcs
    /\ cats \in {<<a, b>> : a \in Stores(mpisize, {Variant0}, {NoAttrs}),
                            b \in Stores(mpisize, [ColumnNames -> {0, 1}], {NoAttrs})}
    /\ ccall = NoCCall
    /\ cret = [status |-> "none", cat |-> EmptyCatalog(mpisize)]
    /\ eq = NoEq
    /\ eqcols = <<>>
    /\ ckpt = NoCheckpoint
    /\ NoFile
    /\ NoStore

\* list(set(...)): the names in some order
Orders(S) == {o \in [1..Cardinality(S) -> S] : \A i, j \in 1..Cardinality(S) : o[i] = o[j] => i = j}

\* lines 875-882: the columns of both stores; False at once when they differ
EqBegin(self_columns) ==
    /\ \A r \in Ranks : eq[r].pc = "idle"
    /\ eqcols' = self_columns
    /\ eq' = [r \in Ranks |->
                IF CatColumns(cats[2]) # CatColumns(cats[1])
                THEN [pc |-> "done", k |-> 0, toret |-> TRUE, ret |-> FALSE]
                ELSE IF self_columns = <<>>
                THEN [pc |-> "bcast", k |-> 0, toret |-> TRUE, ret |-> FALSE]
                ELSE [pc |-> "cget_self", k |-> 1, toret |-> TRUE, ret |-> FALSE]]
    /\ UNCHANGED <<mpisize, filevars, storevars, ckpt, cats, ccall, cret>>

\* line 884: self.cget(col, mpiroot=self.mpiroot)
EqGatherSelf ==
    /\ \E k \in 1..Len(eqcols) : \A r \in Ranks : eq[r].pc = "cget_self" /\ eq[r].k = k
    /\ eq' = [r \in Ranks |-> [eq[r] EXCEPT !.pc = "cget_other"]]
    /\ UNCHANGED <<mpisize, filevars, storevars, ckpt, cats, ccall, cret, eqcols>>

\* lines 886-889 on the root: the loop is left at this column ("break"), goes
\* on to the next column ("next"), or the comparison of line 887 raises
EqBreaks(self_value, other_value, strict) ==
    LET equal == NpAllEqual(self_value, other_value, strict)
    IN IF equal.status # "ok" THEN equal.status
       ELSE IF ~equal.value THEN "break"
       ELSE "next"

\* lines 885-889: other.cget(col, mpiroot=self.mpiroot), then the root compares
\* the gathered columns and leaves the loop when they differ.  When the
\* comparison raises, the root leaves __eq__ with the exception and the other
\* ranks go on to their next collective call.
EqGatherOther(strict) ==
    /\ \E k \in 1..Len(eqcols) : \A r \in Ranks : eq[r].pc = "cget_other" /\ eq[r].k = k
    /\ eq' = [r \in Ranks |->
                LET k == eq[r].k
                    next == IF k < Len(eqcols)
                            THEN [eq[r] EXCEPT !.pc = "cget_self", !.k = k + 1]
                            ELSE [eq[r] EXCEPT !.pc = "bcast"]
                    step == EqBreaks(Cget(cats[1], eqcols[k], mpisize),
                                     Cget(cats[2], eqcols[k], mpisize), strict)
                IN IF r # MpiRoot \/ step = "next" THEN next
                   ELSE IF step = "break" THEN [eq[r] EXCEPT !.pc = "bcast", !.toret = FALSE]
                   ELSE [eq[r] EXCEPT !.pc = step]]
    /\ UNCHANGED <<mpisize, filevars, storevars, ckpt, cats, ccall, cret, eqcols>>

\* line 890: return self.mpicomm.bcast(toret, root=self.mpiroot)
EqBcast ==
    /\ \A r \in Ranks : eq[r].pc = "bcast"
    /\ eq' = [r \in Ranks |-> [eq[r] EXCEPT !.pc = "done", !.ret = eq[MpiRoot].toret]]
    /\ UNCHANGED <<mpisize, filevars, storevars, ckpt, cats, ccall, cret, eqcols>>

EqNext ==
    \/ \E self_columns \in Orders(CatColumns(cats[1])) : EqBegin(self_columns)
    \/ EqGatherSelf
    \/ \E strict \in BOOLEAN : EqGatherOther(strict)
    \/ EqBcast

SpecEq == EqInit /\ [][EqNext]_vars

\* ------------------------------------------------------------ BaseFile claims
DiskSizes == [i \in 1..Len(disk) |-> ReadFileHeaderSize(disk[i])]
DiskTotal == SumSeq(DiskSizes)
\* the logical concatenation of all files
AllRows(column) == NpConcatenate([i \in 1..Len(disk) |-> disk[i][column]], 1, Len(disk))
HeaderFresh == \A r \in Ranks : file[r].has_csizes /\ file[r].csizes = DiskSizes

\* C1: after a read-open every rank r holds start = r*total div P and
\* stop = (r+1)*total div P with total the sum of the files' row counts; the
\* blocks are contiguous, do not overlap, cover [0, total) and their lengths
\* sum to total.
C1_BlocksPartitionTotal ==
    fcall.op = "read_header" =>
        /\ \A r \in Ranks :
              /\ file[r].csize = DiskTotal
              /\ file[r].start = (r * DiskTotal) \div mpisize
              /\ file[r].stop = ((r + 1) * DiskTotal) \div mpisize
              /\ file[r].start <= file[r].stop
              /\ file[r].size = file[r].stop - file[r].start
        /\ file[0].start = 0
        /\ file[mpisize - 1].stop = DiskTotal
        /\ \A r \in Ranks \ {0} : file[r].start = file[r - 1].stop
        /\ SumSeq([k \in 1..mpisize |-> file[k - 1].size]) = DiskTotal

\* a read-open on 3 ranks of 2 files whose total is no multiple of 3, with a
\* file boundary strictly inside one rank's block
C1_Witness ==
    /\ fcall.op = "read_header"
    /\ mpisize = 3
    /\ Len(disk) = 2
    /\ DiskTotal % 3 # 0
    /\ \E r \in Ranks : file[r].start < DiskSizes[1] /\ DiskSizes[1] < file[r].stop

\* C2: read(column) returns on every rank exactly the rows [start, stop) of the
\* logical concatenation of all files, in order, so stop - start of them; files
\* of size 0 and blocks that start or stop on a file boundary included.
C2_ReadReturnsBlock ==
    (fcall.op = "read" /\ HeaderFresh) =>
        \A r \in Ranks :
            /\ fret[r].status = "ok"
            /\ file[r].start = (r * DiskTotal) \div mpisize
            /\ file[r].stop = ((r + 1) * DiskTotal) \div mpisize
            /\ fret[r].value = SubSeq(AllRows(fcall.column), file[r].start + 1, file[r].stop)
            /\ Len(fret[r].value) = file[r].stop - file[r].start

\* files [10, 7, 5] on 2 ranks: rank 0 reads all of file 0, then the first row
\* of file 1
C2_Witness ==
    /\ fcall.op = "read"
    /\ mpisize = 2
    /\ DiskSizes = ScenarioSizes
    /\ file[0].start = 0 /\ file[0].stop = 11 /\ file[1].start = 11 /\ file[1].stop = 22
    /\ fret[0].value = disk[1][fcall.column] \o <<disk[2][fcall.column][1]>>

\* C3: a write of a process-partitioned named-column set of global size S to F
\* files gives file i the global rows [i*S div F, (i+1)*S div F) in global
\* order, whatever the local sizes: every row lands in exactly one file, and a
\* rank that does not overlap file i hands it an empty slice.  (Once every
\* rank has left write().)
C3_WriteRedistributes ==
    (fcall.op = "write" /\ fcall.isdict /\ fcall.mpiroot = None /\ saving = <<>>) =>
        LET S == SumSeq(fcall.sizes)
            F == Len(disk)
        IN /\ \A r \in Ranks : fret[r].status = "ok"
           /\ \A i \in 1..F, c \in ColumnNames :
                 /\ c \in DOMAIN disk[i]
                 /\ disk[i][c] =
                        SubSeq(DataColumn(c, S), ((i - 1) * S) \div F + 1, (i * S) \div F)
           /\ \A c \in ColumnNames : AllRows(c) = DataColumn(c, S)
           /\ \A r \in Ranks, i \in 1..F :
                 LET lo == Max(RankLo(fcall.sizes, r), ((i - 1) * S) \div F)
                     hi == Min(RankHi(fcall.sizes, r), (i * S) \div F)
                     sent == fret[r].sent[i]
                 IN IF lo >= hi
                    THEN sent[2] <= sent[1] /\ sent[1] >= 0
                    ELSE sent = <<lo - RankLo(fcall.sizes, r), hi - RankLo(fcall.sizes, r)>>

\* C4: a write of a process-partitioned structured array completes on every
\* rank and gives file i the rows [i*S div F, (i+1)*S div F) of the array.
C4_ArrayWriteCompletes ==
    (fcall.op = "write" /\ ~fcall.isdict /\ fcall.mpiroot = None) =>
        LET S == SumSeq(fcall.sizes)
            F == Len(disk)
        IN /\ \A r \in Ranks : fret[r].status = "ok"
           /\ \A i \in 1..F, c \in ColumnNames :
                 disk[i][c] = SubSeq(DataColumn(c, S), ((i - 1) * S) \div F + 1, (i * S) \div F)

\* C5: write(data, mpiroot=r) of data resident on rank r completes on every
\* rank, and the target files together hold all rows in their original order.
C5_RootWriteCompletes ==
    (fcall.op = "write" /\ fcall.mpiroot # None) =>
        /\ \A r \in Ranks : fret[r].status = "ok"
        /\ \A c \in ColumnNames : AllRows(c) = DataColumn(c, SumSeq(fcall.sizes))

\* ------------------------------------------------------------ BaseCatalog claims
\* the inputs that have columns, and whether they all have the same ones
WithColumns == {i \in 1..Len(cats) : CatColumns(cats[i]) # {}}
SameColumns == \A i, j \in 1..Len(cats) : CatColumns(cats[i]) = CatColumns(cats[j])

\* C6: for 0 <= K <= global size, cslice(0, K) returns a store of global size K
\* whose every column, gathered in rank order, is the first K rows of the
\* gathered original column.
C6_CsliceFirstRows ==
    (ccall.op = "cslice" /\ ccall.start = 0) =>
        /\ cret.status = "ok"
        /\ CatColumns(cret.cat) = CatColumns(cats[1])
        /\ \A c \in CatColumns(cats[1]) :
              /\ Cget(cret.cat, c, mpisize) = SubSeq(Cget(cats[1], c, mpisize), 1, ccall.stop)
              /\ GlobalRows(cret.cat, c) = ccall.stop

\* C7: concatenate(A, B, keep_order=True) of stores with the same columns gives
\* a store whose every column, gathered in rank order, is the gathered column
\* of A followed by the gathered column of B, however A and B are partitioned.
C7_ConcatenateKeepsOrder ==
    (ccall.op = "concatenate" /\ ccall.keep_order /\ SameColumns /\ WithColumns # {}) =>
        /\ cret.status = "ok"
        /\ CatColumns(cret.cat) = CatColumns(cats[1])
        /\ \A c \in CatColumns(cats[1]) :
              Cget(cret.cat, c, mpisize) = Cget(cats[1], c, mpisize) \o Cget(cats[2], c, mpisize)

\* [0,1,2,3,4] on ranks as 3+2 rows and [10,11,12] as 1+2 rows give
\* [0,1,2,3,4,10,11,12], spread again over the 2 ranks
C7_Witness ==
    /\ ccall.op = "concatenate" /\ ccall.keep_order
    /\ cats = <<ScenarioA, ScenarioB>>
    /\ cret.status = "ok"
    /\ Cget(cret.cat, "x", mpisize) = <<0, 1, 2, 3, 4, 10, 11, 12>>
    /\ cret.cat.data[0].val["x"] = <<0, 1, 2, 3>>

\* C8: concatenate(..., keep_order=False) of stores with the same columns moves
\* no row between ranks: on every rank each column of the result is that rank's
\* arrays of the inputs appended in argument order, so its local size is the
\* sum of the inputs' local sizes.
C8_ConcatenateLocal ==
    (ccall.op = "concatenate" /\ ~ccall.keep_order /\ SameColumns /\ WithColumns # {}) =>
        /\ cret.status = "ok"
        /\ CatColumns(cret.cat) = CatColumns(cats[1])
        /\ \A r \in Ranks, c \in CatColumns(cats[1]) :
              /\ cret.cat.data[r].val[c] = cats[1].data[r].val[c] \o cats[2].data[r].val[c]
              /\ Len(cret.cat.data[r].val[c]) =
                    Len(cats[1].data[r].val[c]) + Len(cats[2].data[r].val[c])

\* a local concatenation on 2 ranks whose gathered rows are not those of A
\* followed by those of B
C8_Witness ==
    /\ ccall.op = "concatenate" /\ ~ccall.keep_order
    /\ mpisize = 2
    /\ cret.status = "ok"
    /\ \E c \in CatColumns(cats[1]) :
          /\ c \in CatColumns(cats[2])
          /\ Cget(cret.cat, c, mpisize) # Cget(cats[1], c, mpisize) \o Cget(cats[2], c, mpisize)
          /\ cret.cat.data[0].val[c] = cats[1].data[0].val[c] \o cats[2].data[0].val[c]

\* C9 as stated: concatenate fails with the column-mismatch error whenever two
\* inputs have different column sets, an input without columns included, and
\* returns a store only when all inputs have the same column set.
C9_MismatchAlwaysFails ==
    ccall.op = "concatenate" =>
        /\ ~SameColumns => cret.status = "ValueError"
        /\ cret.status = "ok" => SameColumns

\* C9 amended: inputs that have no columns are left out.  concatenate fails with
\* the column-mismatch error whenever two inputs that both have columns have
\* different column sets, and returns a store only when some input has columns
\* and all inputs that have columns have the same ones; the store has them.
C9_MismatchOfNonEmptyFails ==
    ccall.op = "concatenate" =>
        /\ (\E i, j \in WithColumns : CatColumns(cats[i]) # CatColumns(cats[j]))
              => cret.status = "ValueError"
        /\ cret.status = "ok" =>
              /\ WithColumns # {}
              /\ \A i \in WithColumns : CatColumns(cats[i]) = CatColumns(cret.cat)
        /\ (\A i, j \in WithColumns : CatColumns(cats[i]) = CatColumns(cats[j]))
              => cret.status # "ValueError"

\* a store with columns x, y and one with column x only: the error is raised
C9_Witness ==
    /\ ccall.op = "concatenate"
    /\ CatColumns(cats[1]) = {"x", "y"}
    /\ CatColumns(cats[2]) = {"x"}
    /\ cret.status = "ValueError"

\* C10: for two stores with the same column set, == returns on every rank (no
\* rank stays blocked in a collective call), every rank gets the same boolean,
\* and it is true iff every column's values gathered in rank order are equal
\* element by element.
C10_EqReturnsSameOnAllRanks ==
    (SameColumns /\ \E r \in Ranks : eq[r].pc # "idle") =>
        /\ (\A r \in Ranks : eq[r].pc = "done") \/ ENABLED EqNext
        /\ (\A r \in Ranks : eq[r].pc = "done") =>
              \A r \in Ranks :
                 eq[r].ret = (\A c \in CatColumns(cats[1]) :
                                 Cget(cats[1], c, mpisize) = Cget(cats[2], c, mpisize))

\* ------------------------------------------------------------ save, load
\* the ranks of the run that loads a checkpoint
MaxLoadProcs == 3

\* save(filename): the state whose data holds every column of columns() gathered
\* on the root, which the root writes
CatSaveLocal(cat, nprocs) ==
    [saved |-> TRUE, columns |-> CatColumns(cat), attrs |-> cat.attrs,
     data |-> [c \in ColumnNames |->
                 IF c \in CatColumns(cat) THEN cat.data[MpiRoot].val[c] ELSE <<>>]]
CatSave(cat, nprocs) ==
    [saved |-> TRUE, columns |-> CatColumns(cat), attrs |-> cat.attrs,
     data |-> [c \in ColumnNames |->
                 IF c \in CatColumns(cat) THEN Cget(cat, c, nprocs) ELSE <<>>]]

\* load(filename) in a run of nprocs ranks: the root reads the state, the state
\* without its data and the column names are broadcast, every column is scattered
CatLoad(state, nprocs) ==
    [data |-> [r \in 0..(nprocs - 1) |->
                 [keys |-> state.columns,
                  val |-> [c \in ColumnNames |->
                             IF c \in state.columns
                             THEN ScatterArray(state.data[c], nprocs)[r]
                             ELSE <<>>]]],
     attrs |-> state.attrs]

\* one store built from a dictionary, held by the mpisize ranks of the saving run
PersistInit ==
    /\ mpisize \in 1..MaxCatProcs
    /\ cats \in {<<a>> : a \in Stores(mpisize, {Variant0}, {NoAttrs, [k \in AttrKeys |-> "a"]})}
                \cup (IF mpisize = 2 THEN {<<ScenarioA>>} ELSE {})
    /\ ccall = NoCCall
    /\ cret = [status |-> "none", cat |-> EmptyCatalog(mpisize)]
    /\ eq = NoEq
    /\ eqcols = <<>>
    /\ ckpt = NoCheckpoint
    /\ NoFile
    /\ NoStore

\* cats[1].save(filename), called by every rank
SaveCall ==
    /\ ckpt' = CatSave(cats[1], mpisize)
    /\ ccall' = [NoCCall EXCEPT !.op = "save", !.nprocs = mpisize]
    /\ UNCHANGED <<mpisize, filevars, storevars, cats, cret, eq, eqcols>>

\* BaseCatalog.load(filename), called by every rank of a run of nprocs ranks
LoadCall(nprocs) ==
    /\ ckpt.saved
    /\ ccall' = [NoCCall EXCEPT !.op = "load", !.nprocs = nprocs]
    /\ cret' = [status |-> "ok", cat |-> CatLoad(ckpt, nprocs)]
    /\ UNCHANGED <<mpisize, filevars, storevars, cats, eq, eqcols, ckpt>>

PersistNext ==
    \/ SaveCall
    \/ \E nprocs \in 1..MaxLoadProcs : LoadCall(nprocs)

SpecPersist == PersistInit /\ [][PersistNext]_vars

\* C11: a store saved by N ranks and loaded by M ranks (M = N or not) comes back
\* with the same columns and attrs; every column gathered in rank order equals
\* the original gathered column, so the global size is the original's; and rank
\* r of the M ranks holds the rows [r*n div M, (r+1)*n div M) of the n rows.
C11_SaveLoadRoundTrip ==
    ccall.op = "load" =>
        LET M == ccall.nprocs
            A == cats[1]
            B == cret.cat
        IN /\ cret.status = "ok"
           /\ CatColumns(B) = CatColumns(A)
           /\ B.attrs = A.attrs
           /\ \A c \in CatColumns(A) :
                 LET G == Cget(A, c, mpisize)
                 IN /\ Cget(B, c, M) = G
                    /\ SumSeq([k \in 1..M |-> Len(B.data[k - 1].val[c])]) = Len(G)
                    /\ \A r \in 0..(M - 1) :
                          /\ c \in B.data[r].keys
                          /\ B.data[r].val[c] =
                                SubSeq(G, (r * Len(G)) \div M + 1, ((r + 1) * Len(G)) \div M)

\* two rows held by rank 1 of 2 ranks, with attrs, loaded by 3 ranks: rank 0
\* gets no row, ranks 1 and 2 one each
C11_Witness ==
    /\ ccall.op = "load" /\ ccall.nprocs = 3 /\ mpisize = 2
    /\ cats[1].attrs["k"] = "a" /\ cret.cat.attrs["k"] = "a"
    /\ "x" \in CatColumns(cats[1])
    /\ Len(cats[1].data[0].val["x"]) = 0 /\ Len(cats[1].data[1].val["x"]) = 2
    /\ cret.cat.data[0].val["x"] = <<>>
    /\ cret.cat.data[1].val["x"] = <<cats[1].data[1].val["x"][1]>>
    /\ cret.cat.data[2].val["x"] = <<cats[1].data[1].val["x"][2]>>

\* ------------------------------------------------------------ __len__, cindices
\* the ranks and the local rows of the stores that cindices() is called on
MaxIdxProcs == 3
MaxIdxRows == 2

\* len(self) on one rank, d its self.data and keys = list(self.data.keys()):
\* the length of keys[0], the column inserted first; with no column,
\* has_source is a boolean and so never None, and self._source.size is
\* returned, which a store without source does not have.
CatLen(d, keys, has_source, source_size) ==
    IF keys = <<>>
    THEN IF has_source THEN [status |-> "ok", value |-> source_size]
         ELSE [status |-> "AttributeError", value |-> 0]
    ELSE LET first == keys[1]
         IN IF d.val[first] = NoneColumn THEN [status |-> "TypeError", value |-> 0]
            ELSE [status |-> "ok", value |-> Len(d.val[first])]

\* [0] + np.cumsum(sizes[:1]).tolist()
CindicesOffsets(sizes) == <<0>> \o Cumsum(SubSeq(sizes, 1, Min(1, Len(sizes))))

\* cindices() on every rank of a store without source, built from a dictionary
Cindices(cat, nprocs) ==
    LET rs == 0..(nprocs - 1)
        lens == [r \in rs |-> CatLen(cat.data[r], DictKeys(cat.data[r].keys), FALSE, 0)]
        sizes == [k \in 1..nprocs |-> lens[k - 1].value]
        offsets == CindicesOffsets(sizes)
    IN [r \in rs |->
          IF lens[r].status # "ok"
          THEN [status |-> lens[r].status, value |-> <<>>, names |-> <<>>]
          ELSE IF \E q \in rs : lens[q].status # "ok"
          THEN [status |-> "blocked", value |-> <<>>, names |-> <<>>]
          ELSE IF r + 1 > Len(offsets)
          THEN \* line 588: sizes[self.mpicomm.rank] of a list of 2
               [status |-> "IndexError", value |-> <<>>, names |-> <<>>]
          ELSE [status |-> "ok", names |-> <<>>,
                value |-> [i \in 1..sizes[r + 1] |-> offsets[r + 1] + i - 1]]]

\* a store built from a dictionary, with any local sizes
IdxStores ==
    [nprocs \in 1..MaxIdxProcs |->
        {EmptyCatalog(nprocs)} \cup
        {MakeStore(cols, sizes, Variant0, NoAttrs) :
            cols \in (SUBSET ColumnNames) \ {{}}, sizes \in [1..nprocs -> 0..MaxIdxRows]}]

CindicesInit ==
    /\ mpisize \in 1..MaxIdxProcs
    /\ cats \in {<<a>> : a \in IdxStores[mpisize]}
    /\ ccall = NoCCall
    /\ cret = [status |-> "none", cat |-> EmptyCatalog(mpisize)]
    /\ eq = NoEq
    /\ eqcols = <<>>
    /\ ckpt = NoCheckpoint
    /\ NoFile
    /\ NoStore

\* cats[1].cindices(), called by every rank
CindicesCall ==
    /\ scall' = [NoSCall EXCEPT !.op = "cindices"]
    /\ sret' = Cindices(cats[1], mpisize)
    /\ UNCHANGED <<mpisize, filevars, catvars, store, nread>>

CindicesNext == CindicesCall

SpecCindices == CindicesInit /\ [][CindicesNext]_vars

\* C12: cindices() on rank r returns offset_r + [0, ..., localSize_r - 1] with
\* offset_r the sum of the local sizes of the ranks below r, whatever the number
\* of ranks and the local sizes; so the ranks' index sets are disjoint and
\* their union is 0..globalSize-1.
C12_CindicesPartition ==
    (scall.op = "cindices" /\ CatColumns(cats[1]) # {}) =>
        LET c == CHOOSE c \in CatColumns(cats[1]) : TRUE
            size(r) == Len(cats[1].data[r].val[c])
            offset(r) == SumSeq([k \in 1..r |-> size(k - 1)])
            indices(r) == {sret[r].value[i] : i \in 1..Len(sret[r].value)}
        IN /\ \A r \in Ranks :
                 /\ sret[r].status = "ok"
                 /\ sret[r].value = [i \in 1..size(r) |-> offset(r) + i - 1]
           /\ \A r, q \in Ranks : r # q => indices(r) \cap indices(q) = {}
           /\ UNION {indices(r) : r \in Ranks} = 0..(offset(mpisize) - 1)

\* ------------------------------------------------------------ the store object
\* A store object is [data, order, attrs, has_source]; order[r] is
\* list(self.data.keys()) on rank r, the keys in the order of their insertion;
\* its source self._source is the BaseFile object held in file, opened with
\* mode 'r' on the files of disk.
\* Every rank makes the same calls in the same order.
MaxStoreProcs == 2
MaxStoreRows == 2

\* columns() without include or exclude, source the root's self._source
StoreColumns(st, source) ==
    st.data[MpiRoot].keys \cup (IF st.has_source THEN source[MpiRoot].columns ELSE {})

\* get(column[, default]) on one rank: d is self.data, source is self._source.
\* Gives how the call ends, the value returned, self.data afterwards and
\* whether source.read was called.
StoreGetSourceFirst(d, has_source, source, dsk, column, has_default) ==
    IF has_source /\ column \in source.columns
    THEN [status |-> "ok", value |-> FileRead(source, dsk, column),
          data |-> SetColumn(d, column, FileRead(source, dsk, column)), read |-> TRUE]
    ELSE IF column \in d.keys
    THEN [status |-> "ok", value |-> d.val[column], data |-> d, read |-> FALSE]
    ELSE IF has_default
    THEN [status |-> "default", value |-> <<>>, data |-> d, read |-> FALSE]
    ELSE [status |-> "KeyError", value |-> <<>>, data |-> d, read |-> FALSE]
StoreGet(d, has_source, source, dsk, column, has_default) ==
    IF column \in d.keys
    THEN [status |-> "ok", value |-> d.val[column], data |-> d, read |-> FALSE]
    ELSE IF has_source /\ column \in source.columns
    THEN [status |-> "ok", value |-> FileRead(source, dsk, column),
          data |-> SetColumn(d, column, FileRead(source, dsk, column)), read |-> TRUE]
    ELSE IF has_default
    THEN [status |-> "default", value |-> <<>>, data |-> d, read |-> FALSE]
    ELSE [status |-> "KeyError", value |-> <<>>, data |-> d, read |-> FALSE]

\* del self[name] on one rank: how it ends, self.data and self._source.columns
\* afterwards.  has_source is a boolean, so 'self.has_source is not None' holds
\* for every store.
StoreDel(d, has_source, source, name) ==
    IF name \in d.keys
    THEN [status |-> "ok", columns |-> source.columns,
          data |-> [keys |-> d.keys \ {name}, val |-> [d.val EXCEPT ![name] = <<>>]]]
    ELSE IF ~has_source
    THEN \* line 812: the object has no attribute _source
         [status |-> "AttributeError", columns |-> source.columns, data |-> d]
    ELSE IF name \notin source.columns
    THEN \* line 812: list.remove(x) with x not in the list
         [status |-> "ValueError", columns |-> source.columns, data |-> d]
    ELSE [status |-> "ok", columns |-> source.columns \ {name}, data |-> d]

\* list(self.data.keys()) once column is a key: a new key comes last
Inserted(keys, column) ==
    IF \E i \in 1..Len(keys) : keys[i] = column THEN keys ELSE Append(keys, column)
\* ... and once it is deleted
Removed(keys, column) == SelectSeq(keys, LAMBDA c : c # column)

\* self[col] evaluated on one rank for col = cols[1], cols[2], ... (cols is
\* self.columns(), the names in the order of a set) up to the first column
\* whose value cannot be used: self.data and its keys afterwards, the columns
\* read from the source, and "ok", "None" when a column holds None, or
\* "KeyError"
RECURSIVE GetColumns(_, _, _, _, _, _)
GetColumns(d, keys, has_source, source, dsk, cols) ==
    IF cols = <<>> THEN [status |-> "ok", data |-> d, keys |-> keys, reads |-> {}]
    ELSE LET out == StoreGet(d, has_source, source, dsk, cols[1], FALSE)
             keys1 == IF out.read THEN Inserted(keys, cols[1]) ELSE keys
             rest == GetColumns(out.data, keys1, has_source, source, dsk, Tail(cols))
         IN IF out.status # "ok"
            THEN [status |-> out.status, data |-> d, keys |-> keys, reads |-> {}]
            ELSE IF out.value = NoneColumn
            THEN [status |-> "None", data |-> d, keys |-> keys, reads |-> {}]
            ELSE [rest EXCEPT !.reads = @ \cup (IF out.read THEN {cols[1]} ELSE {})]

\* the store object, and the reads of each column, once every rank has
\* evaluated self[col] along cols
WalkColumns(st, source, dsk, cols, nprocs) ==
    LET out == [r \in 0..(nprocs - 1) |->
                  GetColumns(st.data[r], st.order[r], st.has_source, source[r], dsk, cols)]
    IN [status |-> out[MpiRoot].status,
        store |-> [st EXCEPT !.data = [r \in 0..(nprocs - 1) |-> out[r].data],
                             !.order = [r \in 0..(nprocs - 1) |-> out[r].keys]],
        reads |-> out[MpiRoot].reads]

\* array[a:b] = item
AssignSlice(array, a, b, item) ==
    [i \in 1..Len(array) |->
        IF SliceIndex(a, Len(array)) < i /\ i <= SliceIndex(b, Len(array)) THEN item
        ELSE array[i]]

\* self.data on one rank once self[col] is evaluated for every col of columns
Materialize(d, has_source, source, dsk, columns) ==
    LET reads == {c \in columns \ d.keys : has_source /\ c \in source.columns}
    IN [keys |-> d.keys \cup reads,
        val |-> [c \in ColumnNames |->
                   IF c \in reads THEN FileRead(source, dsk, c) ELSE d.val[c]]]

\* the store as the operations that evaluate self[col] for every column see it
Materialized(st, source, dsk, nprocs) ==
    [data |-> [r \in 0..(nprocs - 1) |->
                 Materialize(st.data[r], st.has_source, source[r], dsk,
                             StoreColumns(st, source))],
     attrs |-> st.attrs]

\* copy(): {col: self[col] if col in self else None for col in self.columns()}
StoreCopy(st, source, nprocs) ==
    LET columns == StoreColumns(st, source)
    IN [st EXCEPT !.data =
          [r \in 0..(nprocs - 1) |->
             [keys |-> columns,
              val |-> [c \in ColumnNames |->
                         IF c \in st.data[r].keys THEN st.data[r].val[c]
                         ELSE IF c \in columns THEN NoneColumn ELSE <<>>]]]]

\* whether some column of the mapping holds None
HasNone(st) == \E r \in DOMAIN st.data : \E c \in st.data[r].keys : st.data[r].val[c] = NoneColumn

\* self[start:stop]: new = self.copy();
\* new.data = {col: self[col][name] for col in self.columns()}
StoreSlice(st, source, dsk, start, stop, nprocs) ==
    LET m == Materialized(st, source, dsk, nprocs)
        columns == StoreColumns(st, source)
    IN [st EXCEPT !.data =
          [r \in 0..(nprocs - 1) |->
             [keys |-> columns,
              val |-> [c \in ColumnNames |->
                         IF c \in columns THEN PySlice(m.data[r].val[c], start, stop)
                         ELSE <<>>]]]]

\* the value that store[start:stop] = item writes
SetRowsItem == 7
\* the array that set() is given on a rank: row g holds ColBase(c) + 500 + g
SetItem(c, n) == [g \in 1..n |-> ColBase(c) + 500 + g]

\* the local size that the caller of set() goes by
SetLen(d, keys, has_source, source_size) ==
    LET l == CatLen(d, keys, has_source, source_size)
    IN IF l.status = "ok" THEN l.value ELSE 1

\* ------------------------------------------------------------ store actions
StoreDisks == {DiskOf(<<n>>) : n \in 0..MaxStoreRows} \cup {DiskOf(<<1, 1>>)}
StoreDicts ==
    [nprocs \in 1..MaxStoreProcs |->
        {MakeStore(cols, sizes, Variant0, NoAttrs) :
            cols \in SUBSET ColumnNames,
            sizes \in {[r \in 1..nprocs |-> n] : n \in 0..1}}]

\* BaseCatalog(), BaseCatalog(data=...), or a load_binary / load_hdf5 /
\* load_fits: new = cls(attrs=source.attrs); new._source = source
StoreInit ==
    /\ mpisize \in 1..MaxStoreProcs
    /\ \/ /\ NoFile
          /\ file = [r \in Ranks |-> NoHeader]
          /\ \E a \in StoreDicts[mpisize] :
                store = [data |-> a.data,
                         order |-> [r \in Ranks |-> DictKeys(a.data[r].keys)],
                         attrs |-> a.attrs, has_source |-> FALSE]
       \/ /\ want_array \in {TRUE}
          /\ mpio = FALSE
          /\ saving = <<>>
          /\ disk \in StoreDisks
          /\ \E cols \in {{"x"}, ColumnNames} :
                hdrs = [i \in 1..Len(disk) |-> [GoodHeader EXCEPT !.columns = cols]]
          /\ file = [r \in Ranks |-> ReadHeaderRank(r, disk, hdrs, NoAttrs, mpisize)]
          /\ store = [data |-> [r \in Ranks |-> EmptyData], order |-> [r \in Ranks |-> <<>>],
                      attrs |-> NoAttrs, has_source |-> TRUE]
    /\ fcall = NoCall
    /\ fret = NoRet
    /\ scall = NoSCall
    /\ sret = NoSRet
    /\ nread = [c \in ColumnNames |-> 0]
    /\ NoCatalog

StoreRet(status, value) == [status |-> status, value |-> value, names |-> <<>>]
\* no rank has raised alone or waits in a collective call that cannot complete
StoreAlive == \A r \in Ranks : sret[r].status \notin {"blocked", "NameError"}
\* no local array is longer than the rows the model follows
Bounded(st) ==
    \A r \in DOMAIN st.data : \A c \in ColumnNames : Len(st.data[r].val[c]) <= MaxStoreRows + 1

\* store.get(column) or store.get(column, default), called by every rank
GetCall(column, has_default) ==
    LET out == [r \in Ranks |->
                  StoreGet(store.data[r], store.has_source, file[r], disk, column, has_default)]
    IN /\ StoreAlive
       /\ scall' = [NoSCall EXCEPT !.op = "get", !.column = column, !.has_default = has_default]
       /\ store' = [store EXCEPT
                      !.data = [r \in Ranks |-> out[r].data],
                      !.order = [r \in Ranks |->
                                   IF out[r].read THEN Inserted(store.order[r], column)
                                   ELSE store.order[r]]]
       /\ sret' = [r \in Ranks |-> StoreRet(out[r].status, out[r].value)]
       /\ nread' = IF out[MpiRoot].read THEN [nread EXCEPT ![column] = @ + 1] ELSE nread
       /\ UNCHANGED <<mpisize, filevars, catvars>>

\* store.set(column, item), called by every rank with an array of len(store)
\* rows, or (long) of one row more
SetCall(column, long) ==
    LET n == [r \in Ranks |->
                SetLen(store.data[r], store.order[r], store.has_source, file[r].size)
                    + (IF long THEN 1 ELSE 0)]
    IN /\ StoreAlive
       /\ \A r \in Ranks : n[r] <= MaxStoreRows + 1
       /\ scall' = [NoSCall EXCEPT !.op = "set", !.column = column, !.long = long]
       /\ store' = [store EXCEPT
                      !.data = [r \in Ranks |->
                                  SetColumn(store.data[r], column, SetItem(column, n[r]))],
                      !.order = [r \in Ranks |-> Inserted(store.order[r], column)]]
       /\ sret' = [r \in Ranks |-> StoreRet("ok", <<>>)]
       /\ UNCHANGED <<mpisize, filevars, catvars, nread>>

\* del store[name], called by every rank
DelCall(name) ==
    LET out == [r \in Ranks |-> StoreDel(store.data[r], store.has_source, file[r], name)]
    IN /\ StoreAlive
       /\ scall' = [NoSCall EXCEPT !.op = "del", !.column = name]
       /\ store' = [store EXCEPT
                      !.data = [r \in Ranks |-> out[r].data],
                      !.order = [r \in Ranks |-> Removed(store.order[r], name)]]
       /\ file' = [r \in Ranks |-> [file[r] EXCEPT !.columns = out[r].columns]]
       /\ sret' = [r \in Ranks |-> StoreRet(out[r].status, <<>>)]
       /\ nread' = [nread EXCEPT ![name] = 0]
       /\ UNCHANGED <<mpisize, want_array, mpio, saving, disk, hdrs, fcall, fret, catvars>>

\* store = store.copy(), called by every rank; cols is self.columns(), the
\* names in the order of a set, which is the order of the keys of new.data
CopyCall(cols) ==
    /\ StoreAlive
    /\ scall' = [NoSCall EXCEPT !.op = "copy"]
    /\ store' = [StoreCopy(store, file, mpisize) EXCEPT !.order = [r \in Ranks |-> cols]]
    /\ sret' = [r \in Ranks |-> StoreRet("ok", <<>>)]
    /\ UNCHANGED <<mpisize, filevars, catvars, nread>>

\* the source reads of an operation that evaluates self[col] for every column
ReadAll(st, source) ==
    [c \in ColumnNames |->
        IF c \in StoreColumns(st, source) \ st.data[MpiRoot].keys THEN nread[c] + 1 ELSE nread[c]]
\* ... and of one that evaluated it for the columns reads only
ReadSome(reads) == [c \in ColumnNames |-> IF c \in reads THEN nread[c] + 1 ELSE nread[c]]

\* an operation that evaluates self[col] along cols and stops at a column that
\* holds None: the columns read before it stay in the mapping
Stopped(walk, error) ==
    /\ store' = walk.store
    /\ sret' = [r \in Ranks |-> StoreRet(IF walk.status = "None" THEN error ELSE walk.status,
                                         <<>>)]
    /\ nread' = ReadSome(walk.reads)

\* store = store[start:stop], called by every rank; cols is self.columns()
SliceCall(cols, start, stop) ==
    LET walk == WalkColumns(store, file, disk, cols, mpisize)
    IN /\ StoreAlive
       /\ scall' = [NoSCall EXCEPT !.op = "slice", !.start = start, !.stop = stop]
       /\ IF walk.status # "ok"
          THEN \* None[name]
               Stopped(walk, "TypeError")
          ELSE /\ store' = [StoreSlice(store, file, disk, start, stop, mpisize)
                               EXCEPT !.order = [r \in Ranks |-> cols]]
               /\ sret' = [r \in Ranks |-> StoreRet("ok", <<>>)]
               /\ nread' = ReadAll(store, file)
       /\ UNCHANGED <<mpisize, filevars, catvars>>

\* the columns of cols that come before the first one that holds None
BeforeNone(d, cols) ==
    {cols[i] : i \in {k \in 1..Len(cols) : \A j \in 1..k : d.val[cols[j]] # NoneColumn}}
\* self.data once array[a:b] = item is done on the arrays of names
SetRows(d, names, a, b, item) ==
    [d EXCEPT !.val = [c \in ColumnNames |->
                         IF c \in names THEN AssignSlice(@[c], a, b, item) ELSE @[c]]]

\* store[start:stop] = item, called by every rank (__setitem__ with a slice):
\* for col in self.columns(): self[col][name] = item.  The columns that come
\* before one that holds None are read and written.
SetRowsCall(cols, start, stop, item) ==
    LET walk == WalkColumns(store, file, disk, cols, mpisize)
    IN /\ StoreAlive
       /\ scall' = [NoSCall EXCEPT !.op = "setrows", !.start = start, !.stop = stop]
       /\ store' = [walk.store EXCEPT !.data =
                      [r \in Ranks |->
                         SetRows(walk.store.data[r], BeforeNone(store.data[r], cols),
                                 start, stop, item)]]
       /\ sret' = [r \in Ranks |->
                     StoreRet(IF walk.status = "ok" THEN "ok"
                              ELSE IF walk.status = "None" THEN "TypeError"
                              ELSE walk.status, <<>>)]
       /\ nread' = ReadSome(walk.reads)
       /\ UNCHANGED <<mpisize, filevars, catvars>>

\* store = store.cslice(start, stop), called by every rank; cols is
\* self.columns().  mpi.gather_array raises on a column that is None.
StoreCsliceCall(cols, start, stop) ==
    LET walk == WalkColumns(store, file, disk, cols, mpisize)
        new == Cslice(Materialized(store, file, disk, mpisize), start, stop, mpisize)
    IN /\ StoreAlive
       /\ scall' = [NoSCall EXCEPT !.op = "cslice", !.start = start, !.stop = stop]
       /\ IF walk.status # "ok"
          THEN Stopped(walk, "GatherError")
          ELSE /\ store' = [store EXCEPT !.data = new.data, !.order = [r \in Ranks |-> cols]]
               /\ sret' = [r \in Ranks |-> StoreRet("ok", <<>>)]
               /\ nread' = ReadAll(store, file)
       /\ UNCHANGED <<mpisize, filevars, catvars>>

\* store = BaseCatalog.concatenate(store, store, keep_order=keep_order), called
\* by every rank, which is what store.extend(store, keep_order=keep_order)
\* leaves in store; cols is the list that columns() gives
StoreConcatenateCall(cols, keep_order) ==
    LET walk == WalkColumns(store, file, disk, cols, mpisize)
        m == Materialized(store, file, disk, mpisize)
        out == CatConcatenate(<<m, m>>, keep_order, mpisize)
        new == [store EXCEPT !.data = out.cat.data, !.attrs = out.cat.attrs,
                             !.order = [r \in Ranks |-> cols]]
    IN /\ StoreAlive
       /\ scall' = [NoSCall EXCEPT !.op = "concatenate"]
       /\ IF out.status # "ok"
          THEN \* no store has columns: others[0] of an empty list
               /\ store' = store
               /\ sret' = [r \in Ranks |-> StoreRet(out.status, <<>>)]
               /\ nread' = nread
          ELSE IF walk.status # "ok"
          THEN \* cget(column) gathers None, or np.concatenate([None, None])
               Stopped(walk, IF keep_order THEN "GatherError" ELSE "ValueError")
          ELSE /\ Bounded(new)
               /\ store' = new
               /\ sret' = [r \in Ranks |-> StoreRet("ok", <<>>)]
               /\ nread' = ReadAll(store, file)
       /\ UNCHANGED <<mpisize, filevars, catvars>>

\* get, set with arrays of the local size, and delete
StoreNext ==
    \/ \E column \in ColumnNames, has_default \in BOOLEAN : GetCall(column, has_default)
    \/ \E column \in ColumnNames : SetCall(column, FALSE)
    \/ \E name \in ColumnNames : DelCall(name)

SpecStore == StoreInit /\ [][StoreNext]_vars

\* the operations that give a store its columns, set with any array
StoreOpsNext ==
    \/ \E column \in ColumnNames : GetCall(column, FALSE)
    \/ \E column \in ColumnNames, long \in BOOLEAN : SetCall(column, long)
    \/ \E name \in ColumnNames : DelCall(name)
    \/ \E cols \in Orders(StoreColumns(store, file)) :
          \/ CopyCall(cols)
          \/ \E start \in 0..1 : SliceCall(cols, start, start + 1)
          \/ StoreCsliceCall(cols, 0, 1)
          \/ \E keep_order \in BOOLEAN : StoreConcatenateCall(cols, keep_order)

SpecStoreOps == StoreInit /\ [][StoreOpsNext]_vars

\* rows written in place, on stores that are read, copied and deleted from
StoreRowsNext ==
    \/ \E column \in ColumnNames : GetCall(column, FALSE)
    \/ \E name \in ColumnNames : DelCall(name)
    \/ \E cols \in Orders(StoreColumns(store, file)) :
          \/ CopyCall(cols)
          \/ SetRowsCall(cols, 0, 1, SetRowsItem)

SpecStoreRows == StoreInit /\ [][StoreRowsNext]_vars

\* ------------------------------------------------------------ store claims
\* what a step that is a get(column[, default]) does, rank by rank
GetStep ==
    scall'.op = "get" =>
        LET c == scall'.column
        IN \A r \in Ranks :
              IF c \in store.data[r].keys
              THEN \* the mapped array, whether it was read or set; nothing is read
                   /\ sret'[r].status = "ok"
                   /\ sret'[r].value = store.data[r].val[c]
                   /\ store'.data[r] = store.data[r]
                   /\ nread' = nread
              ELSE IF store.has_source /\ c \in file[r].columns
              THEN \* read from the source, kept in the mapping and returned
                   /\ sret'[r].status = "ok"
                   /\ sret'[r].value = FileRead(file[r], disk, c)
                   /\ store'.data[r].keys = store.data[r].keys \cup {c}
                   /\ store'.data[r].val = [store.data[r].val EXCEPT ![c] = sret'[r].value]
                   /\ nread' = [nread EXCEPT ![c] = nread[c] + 1]
              ELSE \* the default, or the error; the mapping is as it was
                   /\ sret'[r].status = IF scall'.has_default THEN "default" ELSE "KeyError"
                   /\ store'.data[r] = store.data[r]
                   /\ nread' = nread

\* C13: get(column) returns the mapped array when the column is in the mapping;
\* else, on a store whose source declares the column, it reads the column from
\* the source, keeps it in the mapping and returns it; else it returns the
\* default when one is given and raises KeyError when none is, the mapping
\* unchanged.  So between two deletes of a column the source is read at most
\* once for it, and a value that was set is never replaced by a source read.
C13_GetReadsSourceOnce ==
    /\ [](\A c \in ColumnNames : nread[c] <= 1)
    /\ [][GetStep]_vars

\* on 2 ranks, a column that was read from the source and then set: get returns
\* the array that was set, and the source was read once
C13_Witness ==
    /\ scall.op = "get" /\ scall.column = "x"
    /\ mpisize = 2
    /\ store.has_source /\ "x" \in file[0].columns
    /\ nread["x"] = 1
    /\ \A r \in Ranks :
          /\ sret[r].status = "ok"
          /\ sret[r].value = SetItem("x", file[r].size)
          /\ sret[r].value # FileRead(file[r], disk, "x")

\* C14: whatever sequence of set, get, delete, copy, local slicing, cslice and
\* concatenate is applied to a store that was created empty, from a dictionary
\* or backed by a file, on every rank every column of the mapping is an array
\* of the same number of rows, and that number is len(store).
C14_ColumnsHaveLocalSize ==
    \A r \in Ranks :
        LET d == store.data[r]
            l == CatLen(d, store.order[r], store.has_source, file[r].size)
        IN \A c \in d.keys :
              /\ d.val[c] # NoneColumn
              /\ l.status = "ok"
              /\ Len(d.val[c]) = l.value

\* C20: a step that deletes, without error, a column c that the source of a
\* backed store declares leaves c neither in the mapping nor among the columns
\* the source declares, whether c was in the mapping or not, so that get(c)
\* raises KeyError and columns() does not list c; the files are not touched.
C20_DeleteHidesSourceColumn ==
    [][(/\ scall'.op = "del"
        /\ \A r \in Ranks : sret'[r].status = "ok"
        /\ store.has_source
        /\ scall'.column \in file[MpiRoot].columns)
       => /\ scall'.column \notin StoreColumns(store', file')
          /\ \A r \in Ranks :
                StoreGet(store'.data[r], store'.has_source, file'[r], disk', scall'.column,
                         FALSE).status = "KeyError"
          /\ disk' = disk]_vars

\* ------------------------------------------------------------ columns
\* the patterns given to columns(), and how many of them in one list
PatternNames == {"*", "x"}
MaxPatterns == 2

\* columns(include, exclude) on the root, allcols the list of its names: how
\* it ends and the list it would broadcast.  The module never imports re, so
\* the first re.match evaluated raises NameError.
RootColumns(allcols, include, exclude) ==
    LET inc_raises == include.given /\ include.patterns # <<>> /\ allcols # <<>>
        \* line 562: allcols = toret, the names appended by the include loop
        included == IF include.given THEN <<>> ELSE allcols
        exc_raises == exclude.given /\ exclude.patterns # <<>> /\ included # <<>>
    IN IF inc_raises \/ exc_raises THEN [status |-> "NameError", names |-> <<>>]
       ELSE IF exclude.given
       THEN \* line 567: toret = [], and no name is appended
            [status |-> "ok", names |-> <<>>]
       ELSE [status |-> "ok", names |-> included]

\* columns(include, exclude) on every rank: the root's list, broadcast; when
\* the root raises, the other ranks wait in the bcast of line 574
Columns(allcols, include, exclude, nprocs) ==
    LET root == RootColumns(allcols, include, exclude)
    IN [r \in 0..(nprocs - 1) |->
          IF root.status = "ok" THEN [status |-> "ok", value |-> <<>>, names |-> root.names]
          ELSE IF r = MpiRoot THEN [status |-> root.status, value |-> <<>>, names |-> <<>>]
          ELSE [status |-> "blocked", value |-> <<>>, names |-> <<>>]]

\* include or exclude: None, one pattern, or a list of patterns
PatternArgs ==
    {NoPatterns} \cup
    {[given |-> TRUE, patterns |-> ps] :
        ps \in UNION {[1..n -> PatternNames] : n \in 0..MaxPatterns}}

\* store.columns(include=include, exclude=exclude), called by every rank;
\* allcols is list(set(...)), the names in some order
ColumnsCall(allcols, include, exclude) ==
    /\ StoreAlive
    /\ scall' = [NoSCall EXCEPT !.op = "columns", !.include = include, !.exclude = exclude]
    /\ sret' = Columns(allcols, include, exclude, mpisize)
    /\ UNCHANGED <<mpisize, filevars, catvars, store, nread>>

ColumnsNext ==
    \/ \E column \in ColumnNames : GetCall(column, FALSE)
    \/ \E allcols \in Orders(StoreColumns(store, file)), include, exclude \in PatternArgs :
          ColumnsCall(allcols, include, exclude)

SpecColumns == StoreInit /\ [][ColumnsNext]_vars

\* a glob pattern, anchored, against a column name: * is any name
PatternMatches(pattern, name) == pattern = "*" \/ pattern = name

\* C15: columns(include, exclude) returns the same list on every rank: the
\* names, among those in the root's mapping or declared by its source, that
\* match some include pattern (all names when include is None) and no exclude
\* pattern, each once, for one pattern as for a list of several.
C15_ColumnsFiltered ==
    scall.op = "columns" =>
        LET inc == scall.include
            exc == scall.exclude
            expected ==
                {name \in StoreColumns(store, file) :
                    /\ ~inc.given \/ \E i \in 1..Len(inc.patterns) :
                                        PatternMatches(inc.patterns[i], name)
                    /\ ~exc.given \/ \A i \in 1..Len(exc.patterns) :
                                        ~PatternMatches(exc.patterns[i], name)}
        IN \A r \in Ranks :
              /\ sret[r].status = "ok"
              /\ sret[r].names = sret[MpiRoot].names
              /\ {sret[r].names[i] : i \in 1..Len(sret[r].names)} = expected
              /\ Len(sret[r].names) = Cardinality(expected)

\* ------------------------------------------------------------ headers, attrs
\* the value that file i (from 1) gives to an attribute it carries
FileAttrValues == <<"f1", "f2", "f3", "f4">>
\* the headers a file i can have: its columns, whether it carries the
\* attribute, whether the codec can read it
FileHeaders(i) ==
    {[columns |-> cols, attrs |-> a, readable |-> ok] :
        cols \in {{"x"}, ColumnNames},
        a \in {NoAttrs, [k \in AttrKeys |-> FileAttrValues[i]]},
        ok \in BOOLEAN}
HeaderLists(n) == {hd \in [1..n -> UNION {FileHeaders(i) : i \in 1..n}] :
                      \A i \in 1..n : hd[i] \in FileHeaders(i)}
\* the attrs the caller gives to BaseFile(filename, attrs=...)
CallerAttrs == {NoAttrs, [k \in AttrKeys |-> "c"]}

\* BaseFile(filenames, attrs=attrs) on files of one row each, with any headers
HeaderInit ==
    /\ mpisize \in 1..MaxProcs
    /\ want_array \in {TRUE}
    /\ mpio = FALSE
    /\ saving = <<>>
    /\ disk \in {DiskOf([i \in 1..n |-> 1]) : n \in 1..MaxFiles}
    /\ hdrs \in HeaderLists(Len(disk))
    /\ \E attrs \in CallerAttrs : file = [r \in Ranks |-> [NoHeader EXCEPT !.attrs = attrs]]
    /\ fcall = NoCall
    /\ fret = NoRet
    /\ NoCatalog
    /\ NoStore

\* opening for reading, and reading, files with any headers
SpecHeader == HeaderInit /\ [][FileNext]_vars

\* stores with no column or with column x, one row per rank, with or without
\* the attribute
AttrStores(nprocs, value) ==
    {MakeStore(cols, [r \in 1..nprocs |-> 1], Variant0, a) :
        cols \in {{}, {"x"}}, a \in {NoAttrs, [k \in AttrKeys |-> value]}}

\* files that can be read and have the same columns, given to BaseFile; and two
\* stores built from dictionaries
AttrsInit ==
    /\ mpisize \in 1..MaxCatProcs
    /\ want_array \in {TRUE}
    /\ mpio = FALSE
    /\ saving = <<>>
    /\ disk \in {DiskOf([i \in 1..n |-> 1]) : n \in 1..MaxFiles}
    /\ hdrs \in {hd \in HeaderLists(Len(disk)) :
                    \A i \in 1..Len(hd) : hd[i].readable /\ hd[i].columns = ColumnNames}
    /\ \E attrs \in CallerAttrs : file = [r \in Ranks |-> [NoHeader EXCEPT !.attrs = attrs]]
    /\ fcall = NoCall
    /\ fret = NoRet
    /\ cats \in {<<a, b>> : a \in AttrStores(mpisize, "a"), b \in AttrStores(mpisize, "b")}
    /\ ccall = NoCCall
    /\ cret = [status |-> "none", cat |-> EmptyCatalog(mpisize)]
    /\ eq = NoEq
    /\ eqcols = <<>>
    /\ ckpt = NoCheckpoint
    /\ NoStore

AttrsNext ==
    \/ ReadHeader
    \/ \E keep_order \in BOOLEAN : ConcatenateCall(keep_order)

\* the two merges of attributes: of file headers, and of concatenated stores
SpecAttrs == AttrsInit /\ [][AttrsNext]_vars

\* the first, and the last, value of a list of values that is not "absent"
FirstPresent(values) ==
    LET here == {i \in 1..Len(values) : values[i] # "absent"}
    IN IF here = {} THEN "absent" ELSE values[CHOOSE i \in here : \A j \in here : i <= j]
LastPresent(values) ==
    LET here == {i \in 1..Len(values) : values[i] # "absent"}
    IN IF here = {} THEN "absent" ELSE values[CHOOSE i \in here : \A j \in here : i >= j]

\* a read-open gives every rank, for every key, the caller's value if the
\* caller gave one, else the value of the first file that has the key
HeaderMergeStep ==
    (fcall'.op = "read_header" /\ \A r \in Ranks : fret'[r].status = "ok") =>
        \A r \in Ranks, k \in AttrKeys :
            file'[r].attrs[k] =
                FirstPresent(<<file[MpiRoot].attrs[k]>> \o [i \in 1..Len(hdrs) |-> hdrs[i].attrs[k]])

\* C16: the two merges of attributes go opposite ways.  The header merge of
\* files [f1, f2] keeps f1's value of a key both have (first wins), and a value
\* the caller gave at construction wins over every file; concatenate(A, B)
\* keeps B's value (last wins), B having columns or not.
C16_MergePrecedence ==
    /\ [][HeaderMergeStep]_vars
    /\ []((ccall.op = "concatenate" /\ cret.status = "ok") =>
            \A k \in AttrKeys :
                cret.cat.attrs[k] = LastPresent([i \in 1..Len(cats) |-> cats[i].attrs[k]]))

\* files f1, f2 that both carry the key, opened without caller attrs: f1's
\* value is kept; stores A, B that both carry it, B without columns: B's is
C16_Witness ==
    /\ fcall.op = "read_header"
    /\ Len(hdrs) = 2 /\ hdrs[1].attrs["k"] = "f1" /\ hdrs[2].attrs["k"] = "f2"
    /\ \A r \in Ranks : file[r].attrs["k"] = "f1"
    /\ ccall.op = "concatenate" /\ cret.status = "ok"
    /\ cats[1].attrs["k"] = "a" /\ cats[2].attrs["k"] = "b"
    /\ CatColumns(cats[2]) = {}
    /\ cret.cat.attrs["k"] = "b"

\* C17: when the header of some file cannot be read, or a file's columns are
\* no subset of the first file's, a read-open on 2 or more ranks fails on every
\* rank: no rank is left waiting in the broadcast of the header.
C17_HeaderErrorReachesAll ==
    (fcall.op = "read_header" /\ mpisize >= 2 /\ FirstHeaderError(hdrs) # 0) =>
        \A r \in Ranks : fret[r].status \in {"ValueError", "IOError"}

\* ------------------------------------------------------- read after write, files read
\* C18: on an object whose header was read with total T, a write of another
\* total S makes the object recompute its per-file row counts, its total and
\* every rank's interval from S: a following read uses the files' new sizes,
\* start = rank*S div P and stop = (rank+1)*S div P.
C18_ReadAfterWriteUsesNewTotal ==
    (fcall.op = "read" /\ \A r \in Ranks : fret[r].status = "ok") =>
        \A r \in Ranks :
            /\ file[r].csizes = DiskSizes
            /\ file[r].csize = DiskTotal
            /\ file[r].start = (r * DiskTotal) \div mpisize
            /\ file[r].stop = ((r + 1) * DiskTotal) \div mpisize

\* the global rows [lo, hi) that file ifile (from 0) holds, by the header of self
FileLo(self, ifile) == IF ifile = 0 THEN 0 ELSE Cumsum(self.csizes)[ifile]
FileHi(self, ifile) == Cumsum(self.csizes)[ifile + 1]
Intersects(self, ifile) ==
    Max(FileLo(self, ifile), self.start) < Min(FileHi(self, ifile), self.stop)
FirstFileRead(self) ==
    CHOOSE i \in ReadFiles(self) : \A j \in ReadFiles(self) : i <= j

\* C19 as stated: read asks only files that intersect [start, stop) for rows;
\* when start is a cumulative file boundary the first file read is the one
\* that starts there, so no file is asked for an empty range of rows when the
\* interval is not empty.
C19_ReadsOnlyIntersectingFiles ==
    (fcall.op = "read" /\ HeaderFresh) =>
        \A r \in Ranks :
            file[r].start < file[r].stop =>
                /\ \A i \in ReadFiles(file[r]) :
                      /\ Intersects(file[r], i)
                      /\ ReadRows(file[r], i)[1] < ReadRows(file[r], i)[2]
                /\ FileLo(file[r], FirstFileRead(file[r])) <= file[r].start
                /\ file[r].start < FileHi(file[r], FirstFileRead(file[r]))

\* C19, amended: read asks the files from the first one whose cumulative end
\* is >= start to the first one whose cumulative end is >= stop.  Every file
\* that intersects [start, stop) is among them and is asked for exactly its
\* rows of the interval; a file among them that does not intersect it (the
\* file that ends at start, a file of size 0) is asked for an empty range
\* of rows, with bounds that are not negative; the rows returned are those
\* of [start, stop).
C19_ReadsFromLowerBoundFile ==
    (fcall.op = "read" /\ HeaderFresh) =>
        \A r \in Ranks :
            LET self == file[r]
                files == 0..(Len(self.csizes) - 1)
                ends(v) == {i \in files : FileHi(self, i) >= v}
                first(v) == CHOOSE i \in ends(v) : \A j \in ends(v) : i <= j
            IN /\ ReadFiles(self) = first(self.start)..first(self.stop)
               /\ \A i \in files :
                     Intersects(self, i) =>
                         /\ i \in ReadFiles(self)
                         /\ ReadRows(self, i) =
                                <<Max(FileLo(self, i), self.start) - FileLo(self, i),
                                  Min(FileHi(self, i), self.stop) - FileLo(self, i)>>
               /\ \A i \in ReadFiles(self) :
                     ~Intersects(self, i) =>
                         /\ ReadRows(self, i)[1] >= 0
                         /\ ReadRows(self, i)[2] >= 0
                         /\ ReadRows(self, i)[2] <= ReadRows(self, i)[1]
               /\ fret[r].value = SubSeq(AllRows(fcall.column), self.start + 1, self.stop)

\* a read of rows [start, stop), not empty, with start the end of a file that
\* has rows: that file is read first, for no row, then the file that starts
\* at start
C19_Witness ==
    /\ fcall.op = "read"
    /\ \E r \in Ranks :
          LET self == file[r]
              i == FirstFileRead(self)
          IN /\ self.start < self.stop
             /\ self.csizes[i + 1] > 0
             /\ FileHi(self, i) = self.start
             /\ ReadRows(self, i)[1] = ReadRows(self, i)[2]
             /\ i + 1 \in ReadFiles(self)
             /\ ReadRows(self, i + 1)[1] = 0
             /\ Len(fret[r].value) = self.stop - self.start

\* ------------------------------------------------------------ len, csize
\* len(store), called by every rank: self._source.size is the size the source
\* computed in _read_header, stop - start
LenCall ==
    LET out == [r \in Ranks |->
                  CatLen(store.data[r], store.order[r], store.has_source, file[r].size)]
    IN /\ StoreAlive
       /\ scall' = [NoSCall EXCEPT !.op = "len"]
       /\ sret' = [r \in Ranks |->
                     IF out[r].status = "ok" THEN StoreRet("ok", <<out[r].value>>)
                     ELSE StoreRet(out[r].status, <<>>)]
       /\ UNCHANGED <<mpisize, filevars, catvars, store, nread>>

\* store.csize, called by every rank: self.mpicomm.allreduce(len(self)); a rank
\* whose len() raises never enters the allreduce that the others wait in
Csize(st, fileobj, nprocs) ==
    LET rs == 0..(nprocs - 1)
        lens == [r \in rs |->
                   CatLen(st.data[r], st.order[r], st.has_source, fileobj[r].size)]
        total == SumSeq([k \in 1..nprocs |-> lens[k - 1].value])
    IN [r \in rs |->
          IF lens[r].status # "ok" THEN StoreRet(lens[r].status, <<>>)
          ELSE IF \E q \in rs : lens[q].status # "ok" THEN StoreRet("blocked", <<>>)
          ELSE StoreRet("ok", <<total>>)]

CsizeCall ==
    /\ StoreAlive
    /\ scall' = [NoSCall EXCEPT !.op = "csize"]
    /\ sret' = Csize(store, file, mpisize)
    /\ UNCHANGED <<mpisize, filevars, catvars, store, nread>>

LenNext ==
    \/ \E column \in ColumnNames : GetCall(column, FALSE)
    \/ LenCall
    \/ CsizeCall

\* len() and csize of stores built from a dictionary or backed by a file,
\* with columns in their mapping or not
SpecLen == StoreInit /\ [][LenNext]_vars

\* the local length a store with no column in its mapping should have
EmptyStoreLen(r) == IF store.has_source THEN file[r].stop - file[r].start ELSE 0

\* C21: on a store with no column in its mapping, len() returns 0 when the
\* store has no source and the source's local size, stop - start, when it has
\* one: it returns a value and does not fail; csize is the sum of these
\* lengths over all ranks.
C21_LenWithoutColumns ==
    (scall.op \in {"len", "csize"} /\ \A r \in Ranks : store.data[r].keys = {}) =>
        \A r \in Ranks :
            /\ sret[r].status = "ok"
            /\ scall.op = "len" => sret[r].value = <<EmptyStoreLen(r)>>
            /\ scall.op = "csize" =>
                 sret[r].value = <<SumSeq([k \in 1..mpisize |-> EmptyStoreLen(k - 1)])>>

====
